---- MODULE Spec2Model ----
(***************************************************************************)
(* Vedic birth chart engine (src/src/lib/jyotishCalculations.js) and the   *)
(* submit step of the form that drives it (src/src/pages/BirthChartForm).  *)
(*                                                                         *)
(* Representation.                                                         *)
(*   - A JavaScript value is a tagged record: Undefined, NaN, Num(n),      *)
(*     Str(<<chars>>); a string is the sequence of its characters.         *)
(*   - An angle is an integer number of micro-degrees (1 degree = 10^6).   *)
(*   - A Date is [day, min]: the day number (Julian Day Number of its      *)
(*     calendar day) and the minute of that day; InvalidDate is the NaN    *)
(*     date.  The runtime's local time zone is taken to be UTC.            *)
(***************************************************************************)
EXTENDS Integers, Sequences, FiniteSets, TLC

\* -------------------------------------------------------------------------
\* JavaScript values
\* -------------------------------------------------------------------------
Undefined == [t |-> "undefined"]

NaN == [t |-> "nan"]

Num(n) == [t |-> "number", v |-> n]

Str(s) == [t |-> "string", v |-> s]

IsNum(x) == x.t = "number"

IsStr(x) == x.t = "string"

Digits == {"0", "1", "2", "3", "4", "5", "6", "7", "8", "9"}

DigitValue(c) ==
  CASE c = "0" -> 0 [] c = "1" -> 1 [] c = "2" -> 2 [] c = "3" -> 3
    [] c = "4" -> 4 [] c = "5" -> 5 [] c = "6" -> 6 [] c = "7" -> 7
    [] c = "8" -> 8 [] c = "9" -> 9

\* !x for the values a birth field can hold: undefined, NaN, 0 and "" are falsy.
Falsy(x) ==
  \/ x.t = "undefined"
  \/ x.t = "nan"
  \/ (x.t = "number" /\ x.v = 0)
  \/ (x.t = "string" /\ Len(x.v) = 0)

\* x < n and x > n of JavaScript for a birth coordinate: every comparison
\* with undefined or NaN is false.
JsLess(x, n) == IsNum(x) /\ x.v < n

JsGreater(x, n) == IsNum(x) /\ x.v > n

\* -------------------------------------------------------------------------
\* validateBirthData
\* -------------------------------------------------------------------------
AllDigits(s, from, to) == \A i \in from..to : s[i] \in Digits

\* /^\d{4}-\d{2}-\d{2}$/.test(date)
dateRegex(date) ==
  /\ IsStr(date)
  /\ Len(date.v) = 10
  /\ AllDigits(date.v, 1, 4)
  /\ date.v[5] = "-"
  /\ AllDigits(date.v, 6, 7)
  /\ date.v[8] = "-"
  /\ AllDigits(date.v, 9, 10)

\* /^\d{2}:\d{2}$/.test(time)
timeRegex(time) ==
  /\ IsStr(time)
  /\ Len(time.v) = 5
  /\ AllDigits(time.v, 1, 2)
  /\ time.v[3] = ":"
  /\ AllDigits(time.v, 4, 5)

MsgMissing == "Missing required birth data"

MsgDate == "Invalid date format. Use YYYY-MM-DD"

MsgTime == "Invalid time format. Use HH:MM"

MsgLat == "Invalid latitude. Must be between -90 and 90"

MsgLng == "Invalid longitude. Must be between -180 and 180"

Returned(v) == [kind |-> "return", value |-> v]

Thrown(m) == [kind |-> "throw", message |-> m]

\* validateBirthData without its last check.
validateBirthData_noLngCheck(b) ==
  IF Falsy(b.date) \/ Falsy(b.time) \/ b.lat.t = "undefined" \/ b.lng.t = "undefined"
    THEN Thrown(MsgMissing)
  ELSE IF ~dateRegex(b.date) THEN Thrown(MsgDate)
  ELSE IF ~timeRegex(b.time) THEN Thrown(MsgTime)
  ELSE IF JsLess(b.lat, -90) \/ JsGreater(b.lat, 90) THEN Thrown(MsgLat)
  ELSE Returned(TRUE)

\* A presence check that takes every falsy coordinate for a missing one.
validateBirthData_falsyCoordinates(b) ==
  IF Falsy(b.date) \/ Falsy(b.time) \/ Falsy(b.lat) \/ Falsy(b.lng)
    THEN Thrown(MsgMissing)
  ELSE IF ~dateRegex(b.date) THEN Thrown(MsgDate)
  ELSE IF ~timeRegex(b.time) THEN Thrown(MsgTime)
  ELSE IF JsLess(b.lat, -90) \/ JsGreater(b.lat, 90) THEN Thrown(MsgLat)
  ELSE IF JsLess(b.lng, -180) \/ JsGreater(b.lng, 180) THEN Thrown(MsgLng)
  ELSE Returned(TRUE)

validateBirthData(b) ==
  IF Falsy(b.date) \/ Falsy(b.time) \/ b.lat.t = "undefined" \/ b.lng.t = "undefined"
    THEN Thrown(MsgMissing)
  ELSE IF ~dateRegex(b.date) THEN Thrown(MsgDate)
  ELSE IF ~timeRegex(b.time) THEN Thrown(MsgTime)
  ELSE IF JsLess(b.lat, -90) \/ JsGreater(b.lat, 90) THEN Thrown(MsgLat)
  ELSE IF JsLess(b.lng, -180) \/ JsGreater(b.lng, 180) THEN Thrown(MsgLng)
  ELSE Returned(TRUE)

\* -------------------------------------------------------------------------
\* JavaScript arithmetic
\* -------------------------------------------------------------------------
Abs(n) == IF n < 0 THEN -n ELSE n

Sign(n) == IF n < 0 THEN -1 ELSE 1

\* a % m of JavaScript (m > 0): the remainder takes the sign of the dividend.
JsRem(a, m) == IF a >= 0 THEN a % m ELSE -((-a) % m)

\* (a * b) mod m for a, b >= 0, by doubling, so that no intermediate value
\* leaves the 32-bit range of TLC's integers.
RECURSIVE MulMod(_, _, _)
MulMod(a, b, m) ==
  IF b = 0 THEN 0
  ELSE LET h == MulMod(a, b \div 2, m)
       IN (((2 * h) % m) + (IF b % 2 = 1 THEN a % m ELSE 0)) % m

\* (a * b + c) % m of JavaScript for b > 0 and |c| < 900000000, where the
\* product a * b may exceed 32 bits.  When it does, |a * b| > |c|, the sum
\* has the sign of a, and its magnitude modulo m is (|a| * b + sign(a) * c)
\* modulo m.
JsRemWide(a, b, c, m) ==
  IF Abs(a) <= (1200000000 \div b)
    THEN JsRem(a * b + c, m)
    ELSE Sign(a) * ((MulMod(Abs(a), b, m) + ((Sign(a) * c) % m)) % m)

\* -------------------------------------------------------------------------
\* Date
\* -------------------------------------------------------------------------
InvalidDate == [valid |-> FALSE]

MinutesPerDay == 1440

\* Day number of the proleptic Gregorian calendar day y-m-d (m in 1..12,
\* any d): the Julian Day Number at its noon.
DayNumber(y, m, d) ==
  LET a == (14 - m) \div 12
      yy == y + 4800 - a
      mm == m + 12 * a - 3
  IN d + (153 * mm + 2) \div 5 + 365 * yy + yy \div 4 - yy \div 100
       + yy \div 400 - 32045

\* The calendar day of a day number: [year, month, day].
Civil(jdn) ==
  LET f == jdn + 1401 + (((4 * jdn + 274277) \div 146097) * 3) \div 4 - 38
      e == 4 * f + 3
      g == (e % 1461) \div 4
      h == 5 * g + 2
      dd == (h % 153) \div 5 + 1
      mm == ((h \div 153 + 2) % 12) + 1
      yy == e \div 1461 - 4716 + (12 + 2 - mm) \div 12
  IN [year |-> yy, month |-> mm, day |-> dd]

\* new Date(year, monthIndex, day, hours, minutes) on JavaScript numbers
\* (Num or NaN): a NaN component gives the invalid date, a year in 0..99
\* means 1900 + year, and components out of range carry over.
NewDate(year, monthIndex, day, hours, minutes) ==
  IF ~(IsNum(year) /\ IsNum(monthIndex) /\ IsNum(day) /\ IsNum(hours) /\ IsNum(minutes))
    THEN InvalidDate
    ELSE LET y0 == IF year.v >= 0 /\ year.v <= 99 THEN 1900 + year.v ELSE year.v
             months == y0 * 12 + monthIndex.v
             y == months \div 12
             m == (months % 12) + 1
             mins == hours.v * 60 + minutes.v
         IN [valid |-> TRUE,
             day |-> DayNumber(y, m, 1) + (day.v - 1) + (mins \div MinutesPerDay),
             min |-> mins % MinutesPerDay]

\* new Date(date.getTime() + minutes * 60000)
AddMinutes(date, minutes) ==
  IF ~date.valid THEN InvalidDate
  ELSE LET mins == date.min + minutes
       IN [valid |-> TRUE, day |-> date.day + (mins \div MinutesPerDay),
           min |-> mins % MinutesPerDay]

getFullYear(date) == Civil(date.day).year

getHours(date) == date.min \div 60

getMinutes(date) == date.min % 60

\* Math.floor((date - new Date(year, 0, 0)) / (1000 * 60 * 60 * 24))
dayOfYear(date, year) == date.day - NewDate(Num(year), Num(0), Num(0), Num(0), Num(0)).day

\* -------------------------------------------------------------------------
\* Parsing: s.split(sep).map(Number)
\* -------------------------------------------------------------------------
RECURSIVE SplitFrom(_, _, _, _)
SplitFrom(s, sep, i, cur) ==
  IF i > Len(s) THEN <<cur>>
  ELSE IF s[i] = sep THEN <<cur>> \o SplitFrom(s, sep, i + 1, <<>>)
  ELSE SplitFrom(s, sep, i + 1, Append(cur, s[i]))

split(s, sep) == SplitFrom(s, sep, 1, <<>>)

RECURSIVE Decimal(_)
Decimal(ds) ==
  IF Len(ds) = 0 THEN 0
  ELSE 10 * Decimal(SubSeq(ds, 1, Len(ds) - 1)) + DigitValue(ds[Len(ds)])

\* Number(piece): the empty string is 0, a run of digits its value, and a
\* piece holding any other character NaN.
Number(piece) ==
  IF \A i \in 1..Len(piece) : piece[i] \in Digits THEN Num(Decimal(piece))
  ELSE IF piece[1] = "+" /\ Len(piece) > 1 /\ (\A i \in 2..Len(piece) : piece[i] \in Digits)
    THEN Num(Decimal(Tail(piece)))
  ELSE NaN

\* const [a, b, c] = parts: an absent element is undefined.
Element(parts, i) == IF i <= Len(parts) THEN Number(parts[i]) ELSE Undefined

\* x - 1 on a JavaScript number
Minus1(x) == IF IsNum(x) THEN Num(x.v - 1) ELSE NaN

\* -------------------------------------------------------------------------
\* Formatting: Date to text
\* -------------------------------------------------------------------------
DigitChar(d) ==
  CASE d = 0 -> "0" [] d = 1 -> "1" [] d = 2 -> "2" [] d = 3 -> "3" [] d = 4 -> "4"
    [] d = 5 -> "5" [] d = 6 -> "6" [] d = 7 -> "7" [] d = 8 -> "8" [] d = 9 -> "9"

\* n >= 0 written with exactly w digits (the low w digits of n).
RECURSIVE Pad(_, _)
Pad(n, w) == IF w = 0 THEN <<>> ELSE Append(Pad(n \div 10, w - 1), DigitChar(n % 10))

\* date.toISOString().split('T')[0] for a year >= 0: YYYY-MM-DD, and
\* +YYYYYY-MM-DD beyond year 9999.
isoDate(date) ==
  LET c == Civil(date.day)
      yyyy == IF c.year <= 9999 THEN Pad(c.year, 4) ELSE <<"+">> \o Pad(c.year, 6)
  IN yyyy \o <<"-">> \o Pad(c.month, 2) \o <<"-">> \o Pad(c.day, 2)

\* date.toTimeString().split(' ')[0].substring(0, 5): HH:MM
timeOfDayText(date) == Pad(getHours(date), 2) \o <<":">> \o Pad(getMinutes(date), 2)

\* -------------------------------------------------------------------------
\* Time conversion
\* -------------------------------------------------------------------------
\* The birth instant of calculateBirthChart and of dateTimeToJulianDay:
\* new Date(year, month - 1, day, hours, minutes) of the split fields.
birthDateOf(date, time) ==
  LET d == split(date, "-")
      t == split(time, ":")
  IN NewDate(Element(d, 1), Minus1(Element(d, 2)), Element(d, 3),
             Element(t, 1), Element(t, 2))

\* new Date(birthDate.getTime() - timezone * 60 * 60 * 1000); the offset is
\* held in minutes.
utcDateOf(date, time, timezone) == AddMinutes(birthDateOf(date, time), -timezone)

\* dateTimeToJulianDay for well-formed date and time text.  A Julian Day is
\* held as [day, min], standing for day + min / 1440: the day number comes
\* from the fields of the date text, the time of day from the shifted clock.
NaNDay == [valid |-> FALSE]

dateTimeToJulianDay(date, time, timezone) ==
  LET d == split(date, "-")
      utcTime == utcDateOf(date, time, timezone)
  IN IF ~utcTime.valid THEN NaNDay
     ELSE LET year == Element(d, 1).v
              month == Element(d, 2).v
              day == Element(d, 3).v
              a == (14 - month) \div 12
              y == year + 4800 - a
              m == month + 12 * a - 3
              jdn == day + (153 * m + 2) \div 5 + 365 * y + y \div 4 - y \div 100
                       + y \div 400 - 32045
              timeOfDay == getHours(utcTime) * 60 + getMinutes(utcTime)
          IN [valid |-> TRUE, day |-> jdn, min |-> timeOfDay - 720]

\* -------------------------------------------------------------------------
\* Angles (micro-degrees)
\* -------------------------------------------------------------------------
Circle == 360000000

SignWidth == 30000000

\* 23.85 + (year - 1900) * 0.013972
ayanamsaOf(year) == 23850000 + (year - 1900) * 13972

\* The conversion without its second wrap.
tropicalToSidereal_noUpperWrap(tropicalLongitude, date) ==
  LET s0 == tropicalLongitude - ayanamsaOf(getFullYear(date))
  IN IF s0 < 0 THEN s0 + Circle ELSE s0

tropicalToSidereal(tropicalLongitude, date) ==
  LET year == getFullYear(date)
      ayanamsa == ayanamsaOf(year)
      s0 == tropicalLongitude - ayanamsa
      s1 == IF s0 < 0 THEN s0 + Circle ELSE s0
      s2 == IF s1 >= Circle THEN s1 - Circle ELSE s1
  IN s2

Seven == <<"Sun", "Moon", "Mercury", "Venus", "Mars", "Jupiter", "Saturn">>

SevenSet == {Seven[i] : i \in 1..7}

Nodes == {"Rahu", "Ketu"}

Nine == SevenSet \cup Nodes

\* PRIMARY, one body: elon and futureElon are what Astronomy.Ecliptic gave
\* for the instant and for 24 hours later.
primaryPosition(name, elon, futureElon, date) ==
  LET siderealLongitude == tropicalToSidereal(elon, date)
      futureDate == AddMinutes(date, 24 * 60)
      futureSidereal == tropicalToSidereal(futureElon, futureDate)
      d0 == futureSidereal - siderealLongitude
      d1 == IF d0 > 180000000 THEN d0 - Circle ELSE d0
      d2 == IF d1 < -180000000 THEN d1 + Circle ELSE d1
      retrograde == IF name # "Sun" /\ name # "Moon" THEN d2 < 0 ELSE FALSE
  IN [longitude |-> siderealLongitude, retrograde |-> retrograde]

\* retrogradeChance, in thousandths
retrogradeChance(name) ==
  CASE name = "Mercury" -> 200 [] name = "Venus" -> 150 [] name = "Mars" -> 100
    [] name = "Jupiter" -> 80 [] name = "Saturn" -> 80

\* SECONDARY, one body: series is the value of the body's closed-form
\* series (L0 + C, the lunar sum, or L) before it is reduced.
secondaryPosition(name, series, date) ==
  LET l0 == JsRem(series, Circle)
      longitude == IF l0 < 0 THEN l0 + Circle ELSE l0
      siderealLongitude == tropicalToSidereal(longitude, date)
      doy == dayOfYear(date, getFullYear(date))
      retrograde ==
        IF name \in {"Sun", "Moon"} THEN FALSE
        ELSE ((doy * retrogradeChance(name)) % 1000) < retrogradeChance(name)
  IN [longitude |-> siderealLongitude, retrograde |-> retrograde]

\* 1934.1362891 / 365.25 degrees for each year after 2000
NodeRate == 5295377

\* calculateLunarNodes, lines 264-274: the tropical longitudes of the nodes.
tropicalNodes(date) ==
  LET year == getFullYear(date)
      doy == dayOfYear(date, year)
      \* meanNode % 360, meanNode = 125.0445479
      \*   - 1934.1362891 * (year - 2000) / 365.25 - 0.0020756 * dayOfYear
      r0 == JsRemWide(-(year - 2000), NodeRate, 125044548 - 2076 * doy, Circle)
      rahu == IF r0 < 0 THEN r0 + Circle ELSE r0
      ketu == (rahu + 180000000) % Circle
  IN [rahu |-> rahu, ketu |-> ketu]

calculateLunarNodes(date) ==
  LET node == tropicalNodes(date)
  IN [rahu |-> tropicalToSidereal(node.rahu, date),
      ketu |-> tropicalToSidereal(node.ketu, date)]

\* sin(lat) in thousandths, for the latitudes the model draws
SinMilli(lat) ==
  CASE lat = -90 -> -1000 [] lat = -30 -> -500 [] lat = 0 -> 0
    [] lat = 30 -> 500 [] lat = 90 -> 1000

\* Math.floor(x / 30) and x % 30 of the ascendant record
ascendantRecord(longitude) ==
  [longitude |-> longitude,
   sign |-> longitude \div SignWidth,
   degree |-> JsRem(longitude, SignWidth)]

\* The try block of calculateAccurateAscendant; siderealDegrees is
\* Astronomy.SiderealTime(date) * 15.
ascendantTropical(siderealDegrees, lat, lng) ==
  LET a0 == JsRem(siderealDegrees + lng * 1000000, Circle)
      latCorrection == SinMilli(lat) * 23440
      a1 == a0 + latCorrection
      a2 == IF a1 < 0 THEN a1 + Circle ELSE a1
      a3 == IF a2 >= Circle THEN a2 - Circle ELSE a2
  IN a3

ascendantPrimary(siderealDegrees, date, lat, lng) ==
  ascendantRecord(tropicalToSidereal(ascendantTropical(siderealDegrees, lat, lng), date))

\* 15 * 1.00273790935 degrees for each day
SiderealRate == 15041069

\* The catch block of calculateAccurateAscendant, lines 317-323: its
\* ascendantLongitude.
ascendantFallbackLongitude(date, lat, lng) ==
  LET julianDay == dateTimeToJulianDay(isoDate(date), timeOfDayText(date), 0)
      \* (julianDay - 2451545.0) * 1.00273790935 * 15 + lng + lat * 0.25
      rest == julianDay.min * 10445 + lng * 1000000 + lat * 250000
  IN JsRemWide(julianDay.day - 2451545, SiderealRate, rest, Circle)

\* The catch block of calculateAccurateAscendant: the longitude is returned
\* as computed.
ascendantFallback(date, lat, lng) ==
  ascendantRecord(ascendantFallbackLongitude(date, lat, lng))

\* Math.floor(x / 30) % 12 is the JavaScript remainder of the floor.
calculateHouses(ascendantLongitude) ==
  [i \in 1..12 |->
     [house |-> i,
      cusp |-> JsRem(ascendantLongitude + (i - 1) * SignWidth, Circle),
      sign |-> JsRem((ascendantLongitude + (i - 1) * SignWidth) \div SignWidth, 12)]]

\* The literals 13.333333 and 3.333333 of lines 387-388, in micro-degrees.
NakshatraWidth == 13333333

PadaWidth == 3333333

\* getNakshatraName, lines 438-447.
NakshatraNames ==
  <<"Ashwini", "Bharani", "Krittika", "Rohini", "Mrigashira", "Ardra", "Punarvasu",
    "Pushya", "Ashlesha", "Magha", "Purva Phalguni", "Uttara Phalguni", "Hasta",
    "Chitra", "Swati", "Vishakha", "Anuradha", "Jyeshtha", "Mula", "Purva Ashadha",
    "Uttara Ashadha", "Shravana", "Dhanishta", "Shatabhisha", "Purva Bhadrapada",
    "Uttara Bhadrapada", "Revati">>

getNakshatraName(number) ==
  IF number \in 1..Len(NakshatraNames) THEN NakshatraNames[number] ELSE "Unknown"

\* The nakshatra placement of one body, lines 387-394.
nakshatraOf(longitude) ==
  LET nakshatraNumber == (longitude \div NakshatraWidth) + 1
      pada == (JsRem(longitude, NakshatraWidth) \div PadaWidth) + 1
  IN [nakshatra |-> IF nakshatraNumber > 27 THEN nakshatraNumber - 27 ELSE nakshatraNumber,
      pada |-> pada,
      nakshatraName |-> getNakshatraName(nakshatraNumber)]

\* getSignName, lines 452-459.
SignNames ==
  <<"Aries", "Taurus", "Gemini", "Cancer", "Leo", "Virgo",
    "Libra", "Scorpio", "Sagittarius", "Capricorn", "Aquarius", "Pisces">>

\* A sign name taken from the table without the step from number to index.
getSignName_fromZero(number) ==
  LET adjustedNumber == IF number > 12 THEN number - 12 ELSE number
  IN IF adjustedNumber + 1 \in 1..Len(SignNames) THEN SignNames[adjustedNumber + 1]
     ELSE "Unknown"

getSignName(number) ==
  LET adjustedNumber == IF number > 12 THEN number - 12 ELSE number
  IN IF adjustedNumber \in 1..Len(SignNames) THEN SignNames[adjustedNumber] ELSE "Unknown"

\* The rashi placement of one body, lines 400-407.
rashiOf(longitude) ==
  LET signNumber == (longitude \div SignWidth) + 1
      degree == JsRem(longitude, SignWidth)
  IN [sign |-> IF signNumber > 12 THEN signNumber - 12 ELSE signNumber,
      degree |-> degree,
      signName |-> getSignName(signNumber)]

\* -------------------------------------------------------------------------
\* Rounding: the same arithmetic in binary floating point
\* -------------------------------------------------------------------------
\* A JavaScript number is a binary floating-point value, and every sum and
\* difference is rounded to the nearest value of the format (ties to the
\* even one).  Here a longitude is a whole number of units of 2^-21 degree,
\* and a value keeps SignificandBits leading bits where JavaScript keeps 53;
\* the rule of rounding is the same, the last place is coarser.
SignificandBits == 24

UnitsPerDegree == 2 ^ 21

RECURSIVE PowerOfTwoBelow(_)
PowerOfTwoBelow(m) == IF m < 2 THEN 1 ELSE 2 * PowerOfTwoBelow(m \div 2)

\* The spacing of the format around n.
ulp(n) ==
  LET top == PowerOfTwoBelow(Abs(n))
      one == 2 ^ (SignificandBits - 1)
  IN IF top <= one THEN 1 ELSE top \div one

\* The value of the format nearest to n, the even one of two equally near.
rounded(n) ==
  LET u == ulp(n)
      q == n \div u
      r == n - q * u
  IN IF 2 * r < u THEN q * u
     ELSE IF 2 * r > u THEN (q + 1) * u
     ELSE IF q % 2 = 0 THEN q * u ELSE (q + 1) * u

\* a + b and a - b of JavaScript
plus(a, b) == rounded(a + b)

minus(a, b) == rounded(a - b)

Degrees(d) == d * UnitsPerDegree

\* The value of the format for a number given in micro-degrees.
fromMicro(x) ==
  LET whole == x \div 1000000
      part == x % 1000000
  IN rounded(whole * UnitsPerDegree + (((part * 2048) \div 1000) * 1024) \div 1000)

\* tropicalToSidereal, lines 49-53, on rounded numbers; ayanamsa is the
\* value line 47 computed.
tropicalToSiderealRounded(tropicalLongitude, ayanamsa) ==
  LET s0 == minus(tropicalLongitude, ayanamsa)
      s1 == IF s0 < 0 THEN plus(s0, Degrees(360)) ELSE s0
      s2 == IF s1 >= Degrees(360) THEN minus(s1, Degrees(360)) ELSE s1
  IN s2

\* Ketu derived from the converted Rahu and converted once more.
lunarNodesRounded_convertedTwice(meanNode, ayanamsa) ==
  LET r0 == JsRem(meanNode, Degrees(360))
      rahu == tropicalToSiderealRounded(IF r0 < 0 THEN plus(r0, Degrees(360)) ELSE r0,
                                        ayanamsa)
      ketu == JsRem(plus(rahu, Degrees(180)), Degrees(360))
  IN [rahu |-> rahu, ketu |-> tropicalToSiderealRounded(ketu, ayanamsa)]

\* calculateLunarNodes, lines 271-280, on rounded numbers; meanNode is the
\* value line 269 computed.
lunarNodesRounded(meanNode, ayanamsa) ==
  LET r0 == JsRem(meanNode, Degrees(360))
      rahu == IF r0 < 0 THEN plus(r0, Degrees(360)) ELSE r0
      ketu == JsRem(plus(rahu, Degrees(180)), Degrees(360))
  IN [rahu |-> tropicalToSiderealRounded(rahu, ayanamsa),
      ketu |-> tropicalToSiderealRounded(ketu, ayanamsa)]

\* Cusps that are not reduced to the circle.
housesRounded_noWrap(ascendantLongitude) ==
  [i \in 1..12 |->
     LET x == plus(ascendantLongitude, Degrees((i - 1) * 30))
     IN [house |-> i, cusp |-> x, sign |-> JsRem(x \div Degrees(30), 12)]]

\* calculateHouses, lines 336-346, on rounded numbers.  The quotient of
\* line 342 lies below the next whole number whenever its dividend does, so
\* its floor is the floor of the exact quotient.
housesRounded(ascendantLongitude) ==
  [i \in 1..12 |->
     LET x == plus(ascendantLongitude, Degrees((i - 1) * 30))
     IN [house |-> i,
         cusp |-> JsRem(x, Degrees(360)),
         sign |-> JsRem(x \div Degrees(30), 12)]]

\* -------------------------------------------------------------------------
\* The external library (astronomy-engine)
\* -------------------------------------------------------------------------
\* A thrown value: an Error object with its message, or a bare string (the
\* library is free to throw either; a string has no message property).
Err(m) == [t |-> "Error", message |-> m]

Raw(s) == [t |-> "string", text |-> s]

\* The text a thrown value carries.
textOf(e) == IF e.t = "Error" THEN e.message ELSE e.text

\* ${error.message} for a caught value.
messageOf(e) == IF e.t = "Error" THEN e.message ELSE "undefined"

\* new Astronomy.Observer(lat, lng, 0) verifies its arguments: it throws
\* unless both are numbers and the latitude lies within -90..90.
ObserverAccepts(lat, lng) ==
  IsNum(lat) /\ IsNum(lng) /\ lat.v >= -90 /\ lat.v <= 90

MsgObserver == "observer rejected"

\* What the Observer constructor may throw.
ObserverThrows == {Err(MsgObserver), Raw(MsgObserver)}

MsgInvalidTime == "Invalid time value"

MsgType == "Cannot read properties of undefined"

\* What Astronomy.SiderealTime may answer, times 15: 0h, 6h and just
\* under 24h.
SiderealSamples == {0, 90000000, 359999999}

\* Messages of failures raised inside the engine's own stages.
FaultMessages == {"E1", "E2"}

\* -------------------------------------------------------------------------
\* One chart request: the submit step and calculateBirthChart
\* -------------------------------------------------------------------------
VARIABLES
  pc,          \* where the request stands
  requests,    \* requests started so far
  birthData,   \* the input of the request in progress
  instant,     \* utcDate and julianDay of the request
  idx,         \* next body of the PRIMARY loop
  planets,     \* the planets object: body -> strategy that wrote it
  ascendant,   \* the ascendant record, with the path that produced it
  houses, nakshatras, rashis,
  log,         \* the calls made by the request, in order
  raised,      \* the failure that ended the request, as first thrown
  result,      \* what the caller received
  calc,        \* scratch result of the pure-function specifications
  served,      \* history: an earlier request, kept for comparison
  form,        \* BirthChartForm: its state and its running handlers
  maps         \* geocoding.js: geocoder, isLoaded and the calls in progress

vars == <<pc, requests, birthData, instant, idx, planets, ascendant, houses,
          nakshatras, rashis, log, raised, result, calc, served, form, maps>>

MaxRequests == 3

None == [kind |-> "none"]

NoCalc == [op |-> "none"]

Ev(op, arg, ok) == [op |-> op, arg |-> arg, ok |-> ok]

Prefix == "Birth chart calculation failed: "

\* The wrapper with the cause left out.
Wrapped_noCause(message) == <<Prefix, "">>

\* `Birth chart calculation failed: ${error.message}`
Wrapped(message) == <<Prefix, message>>

MsgPositions == "Failed to calculate accurate planetary positions"

CalculationMethod == "astronomy-engine (accurate)"

EmptyMap == [b \in {} |-> None]

\* Inputs of the request model.
Text(s) == Str(s)

D_2000 == <<"2", "0", "0", "0", "-", "0", "1", "-", "0", "1">>

D_1990 == <<"1", "9", "9", "0", "-", "0", "6", "-", "1", "5">>

D_1340 == <<"2", "0", "2", "4", "-", "1", "3", "-", "4", "0">>

D_0230 == <<"2", "0", "2", "4", "-", "0", "2", "-", "3", "0">>

D_0100 == <<"0", "1", "0", "0", "-", "0", "6", "-", "1", "5">>

D_9999 == <<"9", "9", "9", "9", "-", "1", "2", "-", "3", "1">>

D_short == <<"2", "0", "2", "4", "-", "1", "-", "5">>

D_dmy == <<"0", "1", "-", "0", "1", "-", "2", "0", "0", "0">>

D_alpha == <<"2", "0", "2", "x", "-", "0", "1", "-", "0", "1">>

T_noon == <<"1", "2", ":", "0", "0">>

T_0000 == <<"0", "0", ":", "0", "0">>

T_2359 == <<"2", "3", ":", "5", "9">>

T_2599 == <<"2", "5", ":", "9", "9">>

T_short == <<"7", ":", "0", "5">>

T_dash == <<"1", "2", "-", "0", "0">>

RequestDates == {Undefined, Str(D_2000), Str(D_1990), Str(D_0230), Str(D_short)}

RequestTimes == {Str(T_noon), Str(T_short)}

RequestLats == {NaN, Num(0), Num(30), Num(91)}

RequestLngs == {Num(0), Num(181)}

\* timezone offsets, in minutes
RequestZones == {0, 330}

RequestInputs ==
  [date : RequestDates, time : RequestTimes, lat : RequestLats, lng : RequestLngs,
   timezone : RequestZones]

\* The callers of geocoding.js the model runs side by side.
MaxCallers == 3

Callers == 1..MaxCallers

\* BirthChartForm, lines 21-27: the useState initial values ('' and null
\* are None), no handler running, nothing submitted yet.
FormInit ==
  [loading |-> FALSE, error |-> None, chartData |-> None, coordinates |-> None,
   aiAnalysis |-> None, isAnalyzing |-> FALSE, analysisError |-> None,
   step |-> "idle", submitted |-> 0, date |-> <<>>, calls |-> <<>>,
   outcome |-> None, pending |-> {}]

\* geocoding.js, lines 6-7: geocoder = null, isLoaded = false; no Loader
\* created, no call in progress.
MapsInit ==
  [geocoder |-> 0, isLoaded |-> FALSE, loaders |-> 0, loads |-> 0,
   at |-> [c \in Callers |-> "idle"],
   via |-> [c \in Callers |-> "initializeGoogleMaps"]]

Init ==
  /\ pc = "idle"
  /\ requests = 0
  /\ birthData = None
  /\ instant = None
  /\ idx = 1
  /\ planets = EmptyMap
  /\ ascendant = None
  /\ houses = <<>>
  /\ nakshatras = EmptyMap
  /\ rashis = EmptyMap
  /\ log = <<>>
  /\ raised = None
  /\ result = None
  /\ calc = NoCalc
  /\ served = None
  /\ form = FormInit
  /\ maps = MapsInit

\* A catch that logs the failure and ends the request with nothing thrown.
Fail_swallowed(stage, original, caught) ==
  /\ pc' = "done"
  /\ raised' = [kind |-> "failure", stage |-> stage, thrown |-> original,
                message |-> textOf(original)]
  /\ result' = None

\* catch (error) { throw new Error(`Birth chart calculation failed: ...`) }
\* of calculateBirthChart: the request ends with the wrapped error.
\* original is the value first thrown, caught the value that reached the
\* catch.
Fail(stage, original, caught) ==
  /\ pc' = "done"
  /\ raised' = [kind |-> "failure", stage |-> stage, thrown |-> original,
                message |-> textOf(original)]
  /\ result' = [kind |-> "error", type |-> "Error",
                message |-> Wrapped(messageOf(caught))]

\* handleSubmit, step 2 and 3: build birthData, validateBirthData, then
\* call calculateBirthChart.
Submit(b) ==
  /\ pc = "idle"
  /\ requests < MaxRequests
  /\ requests' = requests + 1
  /\ birthData' = b
  /\ LET v == validateBirthData(b)
     IN IF v.kind = "throw"
          THEN /\ pc' = "done"
               /\ result' = [kind |-> "rejected", type |-> "Error", message |-> v.message]
          ELSE /\ pc' = "convert"
               /\ result' = None
  /\ UNCHANGED <<form, maps>>
  /\ UNCHANGED <<served, instant, idx, planets, ascendant, houses, nakshatras, rashis,
                 log, raised, calc>>

\* calculateBirthChart, lines 360-371: split the fields, build the dates.
Convert ==
  /\ pc = "convert"
  /\ IF ~IsStr(birthData.date) \/ ~IsStr(birthData.time)
       THEN /\ Fail("time", Err(MsgType), Err(MsgType))
            /\ UNCHANGED <<instant, log>>
       ELSE /\ instant' =
                 [utcDate |-> utcDateOf(birthData.date.v, birthData.time.v, birthData.timezone),
                  julianDay |-> dateTimeToJulianDay(birthData.date.v, birthData.time.v,
                                                    birthData.timezone)]
            /\ log' = Append(log, Ev("time", "", TRUE))
            /\ pc' = "observer"
            /\ UNCHANGED <<raised, result>>
  /\ UNCHANGED <<form, maps>>
  /\ UNCHANGED <<served, requests, birthData, idx, planets, ascendant, houses, nakshatras,
                 rashis, calc>>

\* calculateBirthChart, line 374.
MakeObserver(thrown) ==
  /\ pc = "observer"
  /\ IF ObserverAccepts(birthData.lat, birthData.lng)
       THEN /\ pc' = "primary"
            /\ UNCHANGED <<raised, result>>
       ELSE Fail("observer", thrown, thrown)
  /\ UNCHANGED <<form, maps>>
  /\ UNCHANGED <<served, requests, birthData, instant, idx, planets, ascendant, houses,
                 nakshatras, rashis, log, calc>>

\* A loop that goes on to the next body after a failed call and falls back
\* when it has tried all seven.
PrimaryBody_continue(outcome) ==
  /\ pc = "primary"
  /\ ~instant.utcDate.valid => outcome = "failNow"
  /\ LET body == Seven[idx]
     IN CASE outcome = "ok" ->
               /\ log' = log \o <<Ev("Ecliptic", body, TRUE), Ev("EclipticFuture", body, TRUE)>>
               /\ planets' = [b \in DOMAIN planets \cup {body} |->
                                IF b = body THEN "PRIMARY" ELSE planets[b]]
               /\ idx' = idx + 1
               /\ pc' = IF idx = 7 THEN "nodes" ELSE "primary"
          [] outcome = "failNow" ->
               /\ log' = Append(log, Ev("Ecliptic", body, FALSE))
               /\ idx' = idx + 1
               /\ pc' = IF idx = 7 THEN "secondary" ELSE "primary"
               /\ UNCHANGED planets
          [] outcome = "failFuture" ->
               /\ log' = log \o <<Ev("Ecliptic", body, TRUE), Ev("EclipticFuture", body, FALSE)>>
               /\ pc' = "secondary"
               /\ UNCHANGED <<planets, idx>>
  /\ UNCHANGED <<form, maps>>
  /\ UNCHANGED <<served, requests, birthData, instant, ascendant, houses, nakshatras, rashis,
                 raised, result, calc>>

\* getAccuratePlanetaryPositions, lines 79-104: one turn of the PRIMARY
\* loop.  Astronomy.Ecliptic is asked for the instant and for 24 hours later;
\* either call may fail, and both fail for an invalid date.
PrimaryBody(outcome) ==
  /\ pc = "primary"
  /\ ~instant.utcDate.valid => outcome = "failNow"
  /\ LET body == Seven[idx]
     IN CASE outcome = "ok" ->
               /\ log' = log \o <<Ev("Ecliptic", body, TRUE), Ev("EclipticFuture", body, TRUE)>>
               /\ planets' = [b \in DOMAIN planets \cup {body} |->
                                IF b = body THEN "PRIMARY" ELSE planets[b]]
               /\ idx' = idx + 1
               /\ pc' = IF idx = 7 THEN "nodes" ELSE "primary"
          [] outcome = "failNow" ->
               /\ log' = Append(log, Ev("Ecliptic", body, FALSE))
               /\ pc' = "secondary"
               /\ UNCHANGED <<planets, idx>>
          [] outcome = "failFuture" ->
               /\ log' = log \o <<Ev("Ecliptic", body, TRUE), Ev("EclipticFuture", body, FALSE)>>
               /\ pc' = "secondary"
               /\ UNCHANGED <<planets, idx>>
  /\ UNCHANGED <<form, maps>>
  /\ UNCHANGED <<served, requests, birthData, instant, ascendant, houses, nakshatras, rashis,
                 raised, result, calc>>

\* A catch block that fills in only the bodies PRIMARY had not reached.
fallbackPlanets_keepPrimary(p) ==
  [b \in DOMAIN p \cup SevenSet |-> IF b \in DOMAIN p THEN p[b] ELSE "SECONDARY"]

\* A catch block that forgets Saturn.
fallbackPlanets_sixBodies(p) ==
  [b \in DOMAIN p \cup (SevenSet \ {"Saturn"}) |-> "SECONDARY"]

\* The seven assignments of the catch block, lines 114-120.
fallbackPlanets(p) == [b \in DOMAIN p \cup SevenSet |-> "SECONDARY"]

\* getAccuratePlanetaryPositions, lines 106-121: the SECONDARY block.  k = 0
\* runs it to its end; k in 1..7 has the k-th computation raise message m,
\* which the outer catch (lines 139-142) replaces by its own.
SecondaryBlock(k, m) ==
  /\ pc = "secondary"
  /\ IF k = 0
       THEN /\ planets' = fallbackPlanets(planets)
            /\ log' = log \o [i \in 1..7 |-> Ev("Secondary", Seven[i], TRUE)]
            /\ pc' = "nodes"
            /\ UNCHANGED <<raised, result>>
       ELSE /\ log' = log \o [i \in 1..k |-> Ev("Secondary", Seven[i], i < k)]
            /\ Fail("positions", Err(m), Err(MsgPositions))
            /\ UNCHANGED planets
  /\ UNCHANGED <<form, maps>>
  /\ UNCHANGED <<served, requests, birthData, instant, idx, ascendant, houses, nakshatras,
                 rashis, calc>>

\* Only Rahu joins the planets object.
withNodes_noKetu(p, date) ==
  [b \in DOMAIN p \cup {"Rahu"} |->
     IF b = "Rahu"
       THEN [by |-> "NODES", longitude |-> calculateLunarNodes(date).rahu,
             retrograde |-> TRUE]
       ELSE p[b]]

\* Nodes flagged retrograde only when the seven bodies came from SECONDARY.
withNodes_directNodes(p, date) ==
  LET nodes == calculateLunarNodes(date)
  IN [b \in DOMAIN p \cup Nodes |->
        CASE b = "Rahu" -> [by |-> "NODES", longitude |-> nodes.rahu,
                            retrograde |-> p["Sun"] = "SECONDARY"]
          [] b = "Ketu" -> [by |-> "NODES", longitude |-> nodes.ketu,
                            retrograde |-> p["Sun"] = "SECONDARY"]
          [] OTHER -> p[b]]

\* Lines 123-137: Rahu and Ketu join the planets object.
withNodes(p, date) ==
  LET nodes == calculateLunarNodes(date)
  IN [b \in DOMAIN p \cup Nodes |->
        CASE b = "Rahu" -> [by |-> "NODES", longitude |-> nodes.rahu, retrograde |-> TRUE]
          [] b = "Ketu" -> [by |-> "NODES", longitude |-> nodes.ketu, retrograde |-> TRUE]
          [] OTHER -> p[b]]

\* getAccuratePlanetaryPositions, lines 123-137, under the outer catch.
NodesStep(ok, m) ==
  /\ pc = "nodes"
  /\ log' = Append(log, Ev("Nodes", "", ok))
  /\ IF ok
       THEN /\ planets' = withNodes(planets, instant.utcDate)
            /\ pc' = "ascendant"
            /\ UNCHANGED <<raised, result>>
       ELSE /\ Fail("nodes", Err(m), Err(MsgPositions))
            /\ UNCHANGED planets
  /\ UNCHANGED <<form, maps>>
  /\ UNCHANGED <<served, requests, birthData, instant, idx, ascendant, houses, nakshatras,
                 rashis, calc>>

\* calculateAccurateAscendant, try block (lines 287-312): g is the sidereal
\* time the library answers.
AscendantTry(g) ==
  /\ pc = "ascendant"
  /\ ObserverAccepts(birthData.lat, birthData.lng)
  /\ instant.utcDate.valid
  /\ log' = Append(log, Ev("SiderealTime", "", TRUE))
  /\ ascendant' = [kind |-> "value", by |-> "PRIMARY", siderealTime |-> Num(g),
                   value |-> ascendantPrimary(g, instant.utcDate, birthData.lat.v,
                                              birthData.lng.v)]
  /\ pc' = "houses"
  /\ UNCHANGED <<form, maps>>
  /\ UNCHANGED <<served, requests, birthData, instant, idx, planets, houses, nakshatras, rashis,
                 raised, result, calc>>

\* calculateAccurateAscendant, catch block (lines 314-330), entered when
\* the Observer or SiderealTime throws.  toISOString throws for an invalid
\* date; ok = FALSE has the block raise message m.
AscendantCatch(ok, m) ==
  /\ pc = "ascendant"
  /\ log' = log \o <<Ev("SiderealTime", "", FALSE), Ev("AscendantFallback", "", ok)>>
  /\ IF ~instant.utcDate.valid
       THEN /\ ~ok
            /\ m = MsgInvalidTime
            /\ Fail("ascendantFallback", Err(m), Err(m))
            /\ UNCHANGED ascendant
       ELSE /\ m \in FaultMessages
            /\ IF ok
                 THEN /\ ascendant' =
                           [kind |-> "value", by |-> "FALLBACK", siderealTime |-> Undefined,
                            value |-> ascendantFallback(instant.utcDate, birthData.lat.v,
                                                        birthData.lng.v)]
                      /\ pc' = "houses"
                      /\ UNCHANGED <<raised, result>>
                 ELSE /\ Fail("ascendantFallback", Err(m), Err(m))
                      /\ UNCHANGED ascendant
  /\ UNCHANGED <<form, maps>>
  /\ UNCHANGED <<served, requests, birthData, instant, idx, planets, houses, nakshatras, rashis,
                 calc>>

\* calculateBirthChart, line 383.
HousesStep(ok, m) ==
  /\ pc = "houses"
  /\ log' = Append(log, Ev("Houses", "", ok))
  /\ IF ok
       THEN /\ houses' = calculateHouses(ascendant.value.longitude)
            /\ pc' = "nakshatras"
            /\ UNCHANGED <<raised, result>>
       ELSE /\ Fail("houses", Err(m), Err(m))
            /\ UNCHANGED houses
  /\ UNCHANGED <<form, maps>>
  /\ UNCHANGED <<served, requests, birthData, instant, idx, planets, ascendant, nakshatras,
                 rashis, calc>>

\* A mapping that visits the seven bodies known when the provider started.
mapOver_sevenOnly(p, what) ==
  [b \in DOMAIN p \cap SevenSet |-> [of |-> what, from |-> p[b]]]

\* Object.entries(planetaryPositions).reduce(...): one entry for each key.
mapOver(p, what) == [b \in DOMAIN p |-> [of |-> what, from |-> p[b]]]

\* calculateBirthChart, lines 386-396.
NakshatraStep(ok, m) ==
  /\ pc = "nakshatras"
  /\ log' = Append(log, Ev("Nakshatras", "", ok))
  /\ IF ok
       THEN /\ nakshatras' = mapOver(planets, "nakshatra")
            /\ pc' = "rashis"
            /\ UNCHANGED <<raised, result>>
       ELSE /\ Fail("nakshatras", Err(m), Err(m))
            /\ UNCHANGED nakshatras
  /\ UNCHANGED <<form, maps>>
  /\ UNCHANGED <<served, requests, birthData, instant, idx, planets, ascendant, houses, rashis,
                 calc>>

\* calculateBirthChart, lines 399-409.
RashiStep(ok, m) ==
  /\ pc = "rashis"
  /\ log' = Append(log, Ev("Rashis", "", ok))
  /\ IF ok
       THEN /\ rashis' = mapOver(planets, "rashi")
            /\ pc' = "assemble"
            /\ UNCHANGED <<raised, result>>
       ELSE /\ Fail("rashis", Err(m), Err(m))
            /\ UNCHANGED rashis
  /\ UNCHANGED <<form, maps>>
  /\ UNCHANGED <<served, requests, birthData, instant, idx, planets, ascendant, houses,
                 nakshatras, calc>>

\* A chart that carries the number of the request, from a counter kept
\* across calls.
chartOf_numbered(b, i, asc, p, h, n, r) ==
  [birthInfo |-> [date |-> b.date, time |-> b.time,
                  coordinates |-> [lat |-> b.lat, lng |-> b.lng],
                  timezone |-> b.timezone, julianDay |-> i.julianDay,
                  utcDate |-> i.utcDate],
   ascendant |-> asc,
   planetaryPositions |-> p,
   houses |-> h,
   nakshatras |-> n,
   rashis |-> r,
   calculationMethod |-> CalculationMethod,
   serial |-> requests]

\* The object calculateBirthChart returns, lines 411-427 (calculatedAt, the
\* wall clock, is left out).
chartOf(b, i, asc, p, h, n, r) ==
  [birthInfo |-> [date |-> b.date, time |-> b.time,
                  coordinates |-> [lat |-> b.lat, lng |-> b.lng],
                  timezone |-> b.timezone, julianDay |-> i.julianDay,
                  utcDate |-> i.utcDate],
   ascendant |-> asc,
   planetaryPositions |-> p,
   houses |-> h,
   nakshatras |-> n,
   rashis |-> r,
   calculationMethod |-> CalculationMethod]

Assemble ==
  /\ pc = "assemble"
  /\ log' = Append(log, Ev("Assemble", "", TRUE))
  /\ result' = [kind |-> "chart",
                chart |-> chartOf(birthData, instant, ascendant.value, planets, houses,
                                  nakshatras, rashis)]
  /\ pc' = "done"
  /\ UNCHANGED <<form, maps>>
  /\ UNCHANGED <<served, requests, birthData, instant, idx, planets, ascendant, houses,
                 nakshatras, rashis, raised, calc>>

\* The request is over; the next one starts from fresh locals.
Return ==
  /\ pc = "done"
  /\ pc' = "idle"
  /\ birthData' = None
  /\ instant' = None
  /\ idx' = 1
  /\ planets' = EmptyMap
  /\ ascendant' = None
  /\ houses' = <<>>
  /\ nakshatras' = EmptyMap
  /\ rashis' = EmptyMap
  /\ log' = <<>>
  /\ raised' = None
  /\ result' = None
  /\ UNCHANGED <<requests, calc, form, maps>>

Finish == Return /\ UNCHANGED <<form, maps, served>>

\* The same, with the request written to the history: its input, what the
\* library answered to each call, and what the caller received.
Remember ==
  /\ served = None
  /\ served' = [kind |-> "request", input |-> birthData, calls |-> log,
                siderealTime |-> IF ascendant = None THEN Undefined
                                 ELSE ascendant.siderealTime,
                outcome |-> result]
  /\ Return

Next ==
  \/ \E b \in RequestInputs : Submit(b)
  \/ Convert
  \/ \E thrown \in ObserverThrows : MakeObserver(thrown)
  \/ \E outcome \in {"ok", "failNow", "failFuture"} : PrimaryBody(outcome)
  \/ \E k \in 0..7, m \in FaultMessages : SecondaryBlock(k, m)
  \/ \E ok \in BOOLEAN, m \in FaultMessages : NodesStep(ok, m)
  \/ \E g \in SiderealSamples : AscendantTry(g)
  \/ \E ok \in BOOLEAN, m \in FaultMessages \cup {MsgInvalidTime} : AscendantCatch(ok, m)
  \/ \E ok \in BOOLEAN, m \in FaultMessages : HousesStep(ok, m)
  \/ \E ok \in BOOLEAN, m \in FaultMessages : NakshatraStep(ok, m)
  \/ \E ok \in BOOLEAN, m \in FaultMessages : RashiStep(ok, m)
  \/ Assemble
  \/ Finish

Spec == Init /\ [][Next]_vars

\* -------------------------------------------------------------------------
\* Properties of a chart request (specification Spec)
\* -------------------------------------------------------------------------
PrimaryOps == {"Ecliptic", "EclipticFuture", "SiderealTime"}

PositionOps == {"Ecliptic", "EclipticFuture"}

LogHas(ops, ok) == \E i \in 1..Len(log) : log[i].op \in ops /\ log[i].ok = ok

ChartReturned == pc = "done" /\ result.kind = "chart"

\* The chart has every component and every body.
Complete(c) ==
  /\ DOMAIN c.ascendant = {"longitude", "sign", "degree"}
  /\ Len(c.houses) = 12
  /\ DOMAIN c.planetaryPositions = Nine
  /\ DOMAIN c.nakshatras = Nine
  /\ DOMAIN c.rashis = Nine

\* The input breaks one of the rules of validation.
FieldMissing(x) == x.t = "undefined" \/ (x.t = "string" /\ Len(x.v) = 0)

ViolatesValidation(b) ==
  \/ FieldMissing(b.date) \/ FieldMissing(b.time)
  \/ b.lat.t = "undefined" \/ b.lng.t = "undefined"
  \/ ~dateRegex(b.date) \/ ~timeRegex(b.time)
  \/ (IsNum(b.lat) /\ (b.lat.v < -90 \/ b.lat.v > 90))
  \/ (IsNum(b.lng) /\ (b.lng.v < -180 \/ b.lng.v > 180))

\* Present, well formed, and coordinates that are numbers within range.
ValidInput(b) ==
  /\ ~ViolatesValidation(b)
  /\ IsNum(b.lat) /\ IsNum(b.lng)

ValidationMessages == {MsgMissing, MsgDate, MsgTime, MsgLat, MsgLng}

\* C1: in a returned chart, once any PRIMARY position call has failed, all
\* seven classical bodies carry their SECONDARY position, also those PRIMARY
\* had already computed.
C1_FallbackReplacesAllSeven ==
  (ChartReturned /\ LogHas(PositionOps, FALSE))
    => \A b \in SevenSet : result.chart.planetaryPositions[b] = "SECONDARY"

\* C1 witness: a chart returned after Sun and Moon were computed by PRIMARY
\* and the call for Mercury failed.
C1_Witness ==
  /\ ChartReturned
  /\ \E i \in 1..Len(log) : log[i] = Ev("EclipticFuture", "Moon", TRUE)
  /\ \E i \in 1..Len(log) : log[i].op \in PositionOps /\ log[i].arg = "Mercury" /\ ~log[i].ok
  /\ result.chart.planetaryPositions["Sun"] = "SECONDARY"

\* C2: with valid input, when every call to the external library fails and
\* the engine's own stages do not, the request ends with a complete chart
\* computed by SECONDARY and the fallback ascendant, and raises nothing.
C2_AllPrimaryFailStillChart ==
  (/\ pc = "done"
   /\ ValidInput(birthData)
   /\ \A i \in 1..Len(log) : (log[i].op \in PrimaryOps) = ~log[i].ok)
    => /\ result.kind = "chart"
       /\ raised = None
       /\ Complete(result.chart)
       /\ \A b \in SevenSet : result.chart.planetaryPositions[b] = "SECONDARY"
       /\ ascendant.by = "FALLBACK"

\* C2 witness: a chart returned although the first Ecliptic call and the
\* SiderealTime call failed.
C2_Witness ==
  /\ ChartReturned
  /\ ValidInput(birthData)
  /\ \A i \in 1..Len(log) : (log[i].op \in PrimaryOps) = ~log[i].ok
  /\ log[2] = Ev("Ecliptic", "Sun", FALSE)
  /\ LogHas({"SiderealTime"}, FALSE)

\* C3 as claimed: a chart whose positions or ascendant came from the
\* fallback carries a calculation method other than the one a chart computed
\* entirely by PRIMARY carries.
C3_MetadataRecordsFallback ==
  (ChartReturned /\ LogHas(PrimaryOps, FALSE))
    => result.chart.calculationMethod # "astronomy-engine (accurate)"

\* C4: an input that violates validation, submitted through handleSubmit
\* (which validates before it calls calculateBirthChart), ends the request
\* with a validation error and no stage of the computation has been called.
C4_InvalidInputNeverComputed ==
  (pc # "idle" /\ ViolatesValidation(birthData))
    => /\ pc = "done"
       /\ result.kind = "rejected"
       /\ result.message \in ValidationMessages
       /\ log = <<>>
       /\ planets = EmptyMap
       /\ ascendant = None

\* C4 witness: the request with longitude 181 was rejected before anything ran.
C4_Witness ==
  /\ pc = "done"
  /\ birthData.lng = Num(181)
  /\ dateRegex(birthData.date) /\ timeRegex(birthData.time) /\ birthData.lat = Num(0)
  /\ result.kind = "rejected"
  /\ result.message = MsgLng
  /\ log = <<>>

C8_AllOrNothing ==
  /\ pc = "done" =>
       \/ result.kind \in {"error", "rejected"}
       \/ (result.kind = "chart" /\ raised = None /\ Complete(result.chart))
  /\ pc # "done" => result = None

\* C8 witness: a complete chart was returned, computed by PRIMARY throughout.
C8_Witness ==
  /\ ChartReturned
  /\ Complete(result.chart)
  /\ ~LogHas(PrimaryOps, FALSE)

\* -------------------------------------------------------------------------
\* Requests one after another, one of them kept in the history
\* (specification SpecRepeat)
\* -------------------------------------------------------------------------
RepeatInputs ==
  [date : {Str(D_2000), Str(D_1990)}, time : {Str(T_noon)}, lat : {Num(0)},
   lng : {Num(0), Num(181)}, timezone : {0}]

RepeatFaults == {"E1"}

NextRepeat ==
  \/ \E b \in RepeatInputs : Submit(b)
  \/ Convert
  \/ \E thrown \in ObserverThrows : MakeObserver(thrown)
  \/ \E outcome \in {"ok", "failNow", "failFuture"} : PrimaryBody(outcome)
  \/ \E k \in {0, 1}, m \in RepeatFaults : SecondaryBlock(k, m)
  \/ \E m \in RepeatFaults : NodesStep(TRUE, m)
  \/ \E g \in {0, 90000000} : AscendantTry(g)
  \/ \E ok \in BOOLEAN, m \in RepeatFaults : AscendantCatch(ok, m)
  \/ \E m \in RepeatFaults : HousesStep(TRUE, m)
  \/ \E m \in RepeatFaults : NakshatraStep(TRUE, m)
  \/ \E ok \in BOOLEAN, m \in RepeatFaults : RashiStep(ok, m)
  \/ Assemble
  \/ Finish
  \/ Remember

SpecRepeat == Init /\ [][NextRepeat]_vars

\* The request in progress has the input of the remembered one and the
\* library answered each call as it did then.
SameRequest ==
  /\ served # None
  /\ served.input = birthData
  /\ served.calls = log
  /\ served.siderealTime = (IF ascendant = None THEN Undefined ELSE ascendant.siderealTime)

\* C11: a request with the input of an earlier one, to which the library
\* answers as it did then, returns the chart the earlier one returned,
\* whatever requests were served before or in between.
C11_SameInputSameChart ==
  (pc = "done" /\ result.kind = "chart" /\ SameRequest) => result = served.outcome

\* C11 witness: the third request of a run returned, by the SECONDARY
\* fallback, the chart an earlier request with its input had returned.
C11_Witness ==
  /\ pc = "done"
  /\ requests = 3
  /\ result.kind = "chart"
  /\ SameRequest
  /\ LogHas(PositionOps, FALSE)
  /\ result = served.outcome

\* -------------------------------------------------------------------------
\* validateBirthData on its own (specification SpecValidate)
\* -------------------------------------------------------------------------
ValidateDates ==
  {Undefined, Str(<<>>), Str(D_2000), Str(D_1340), Str(D_0230), Str(D_short),
   Str(D_dmy), Str(D_alpha)}

ValidateTimes ==
  {Undefined, Str(<<>>), Str(T_noon), Str(T_2599), Str(T_short), Str(T_dash)}

ValidateLats == {Undefined, NaN, Num(-91), Num(-90), Num(0), Num(90), Num(91)}

ValidateLngs == {Undefined, Num(-181), Num(-180), Num(0), Num(180), Num(181)}

ValidateInputs ==
  [date : ValidateDates, time : ValidateTimes, lat : ValidateLats, lng : ValidateLngs,
   timezone : {0}]

Validate(b) ==
  /\ calc = NoCalc
  /\ calc' = [op |-> "validateBirthData", input |-> b, out |-> validateBirthData(b)]
  /\ UNCHANGED <<form, maps>>
  /\ UNCHANGED <<served, pc, requests, birthData, instant, idx, planets, ascendant, houses,
                 nakshatras, rashis, log, raised, result>>

\* The result is dropped; the next call starts afresh.
Discard ==
  /\ calc # NoCalc
  /\ calc' = NoCalc
  /\ UNCHANGED <<form, maps>>
  /\ UNCHANGED <<served, pc, requests, birthData, instant, idx, planets, ascendant, houses,
                 nakshatras, rashis, log, raised, result>>

NextValidate ==
  \/ (calc = NoCalc /\ \E b \in ValidateInputs : Validate(b))
  \/ Discard

SpecValidate == Init /\ [][NextValidate]_vars

\* The five rules in the order of the claim, with their messages.
Rules(b) ==
  << FieldMissing(b.date) \/ FieldMissing(b.time)
       \/ b.lat.t = "undefined" \/ b.lng.t = "undefined",
     ~dateRegex(b.date),
     ~timeRegex(b.time),
     IsNum(b.lat) /\ (b.lat.v < -90 \/ b.lat.v > 90),
     IsNum(b.lng) /\ (b.lng.v < -180 \/ b.lng.v > 180) >>

RuleMessages == <<MsgMissing, MsgDate, MsgTime, MsgLat, MsgLng>>

\* C5: validateBirthData throws exactly when one of the five rules is
\* broken, with the message of the first broken rule in their order, and
\* returns true otherwise.
C5_ValidateThrowsFirstBrokenRule ==
  calc.op = "validateBirthData" =>
    LET broken == {i \in 1..5 : Rules(calc.input)[i]}
    IN IF broken = {}
         THEN calc.out = Returned(TRUE)
         ELSE /\ calc.out.kind = "throw"
              /\ \E i \in broken :
                   /\ \A j \in broken : i <= j
                   /\ calc.out.message = RuleMessages[i]

\* C5 witness: an input breaking the time, latitude and longitude rules was
\* refused with the message of the time rule.
C5_Witness ==
  /\ calc.op = "validateBirthData"
  /\ calc.input.date = Str(D_2000)
  /\ calc.input.time = Str(T_short)
  /\ calc.input.lat = Num(91)
  /\ calc.input.lng = Num(181)
  /\ calc.out = Thrown(MsgTime)

DaysInMonth(y, m) ==
  IF m \in {4, 6, 9, 11} THEN 30
  ELSE IF m = 2
    THEN (IF (y % 4 = 0 /\ y % 100 # 0) \/ y % 400 = 0 THEN 29 ELSE 28)
  ELSE 31

\* The date and time text name a day of the calendar and a time of the clock.
CalendarInstant(b) ==
  LET d == split(b.date.v, "-")
      t == split(b.time.v, ":")
      year == Element(d, 1)
      month == Element(d, 2)
      day == Element(d, 3)
      hours == Element(t, 1)
      minutes == Element(t, 2)
  IN /\ IsNum(year) /\ IsNum(month) /\ IsNum(day) /\ IsNum(hours) /\ IsNum(minutes)
     /\ month.v \in 1..12
     /\ day.v >= 1 /\ day.v <= DaysInMonth(year.v, month.v)
     /\ hours.v \in 0..23
     /\ minutes.v \in 0..59

\* C6 as claimed: every input validateBirthData accepts denotes a valid
\* calendar instant.
C6_AcceptedIsCalendarInstant ==
  (calc.op = "validateBirthData" /\ calc.out = Returned(TRUE))
    => CalendarInstant(calc.input)

\* -------------------------------------------------------------------------
\* The position and ascendant calculators on their own (specification
\* SpecCalc)
\* -------------------------------------------------------------------------
CalcDateTexts == {D_2000, D_1990, D_0100, D_9999, D_0230, D_1340}

CalcTimeTexts == {T_noon, T_0000, T_2359, T_2599}

CalcZones == {-300, 0, 330}

\* The UTC instants of valid inputs.
CalcDates ==
  {utcDateOf(d, t, z) : d \in CalcDateTexts, t \in CalcTimeTexts, z \in CalcZones}

\* Tropical longitudes in [0, 360) the library may answer: the ends of the
\* range and the values next to the ayanamsa of 1990 and 2000.
TropicalSamples == {0, 1, 25107479, 25107480, 25247200, 180000000, 359999999}

\* Values of a closed-form series before it is reduced.
SeriesSamples ==
  {-725000000, -360000000, -1, 0, 25247200, 359999999, 360000000, 1085000000}

CalcLats == {-90, -30, 0, 30, 90}

CalcLngs == {-180, -77, 0, 77, 180}

CalcSidereal == SiderealSamples \cup {180000000}

CalcUnchanged ==
  UNCHANGED <<form, maps, served, pc, requests, birthData, instant, idx, planets,
              ascendant, houses, nakshatras, rashis, log, raised, result>>

PrimaryCalc(name, elon, futureElon, date) ==
  /\ calc = NoCalc
  /\ calc' = [op |-> "primaryPosition", body |-> name, date |-> date, elon |-> elon,
              futureElon |-> futureElon,
              out |-> primaryPosition(name, elon, futureElon, date)]
  /\ CalcUnchanged

SecondaryCalc(name, series, date) ==
  /\ calc = NoCalc
  /\ calc' = [op |-> "secondaryPosition", body |-> name, date |-> date,
              series |-> series, out |-> secondaryPosition(name, series, date)]
  /\ CalcUnchanged

LunarNodesCalc(date) ==
  /\ calc = NoCalc
  /\ calc' = [op |-> "calculateLunarNodes", date |-> date,
              out |-> calculateLunarNodes(date)]
  /\ CalcUnchanged

AscendantPrimaryCalc(g, date, lat, lng) ==
  /\ calc = NoCalc
  /\ calc' = [op |-> "ascendantPrimary", date |-> date, lat |-> lat, lng |-> lng,
              sidereal |-> g, out |-> ascendantPrimary(g, date, lat, lng)]
  /\ CalcUnchanged

AscendantFallbackCalc(date, lat, lng) ==
  /\ calc = NoCalc
  /\ calc' = [op |-> "ascendantFallback", date |-> date, lat |-> lat, lng |-> lng,
              out |-> ascendantFallback(date, lat, lng)]
  /\ CalcUnchanged

\* Longitudes in [0, 360): the ends of every sign, of every nakshatra and of
\* every pada as lines 387-388 and 400 delimit them, and the ends of the
\* 108 padas of 360/108 degrees each.
LongitudeSamples ==
  {x \in {k * SignWidth + d : k \in 0..12, d \in {-1, 0, 1}}
         \cup {k * NakshatraWidth + j * PadaWidth + d : k \in 0..27, j \in 0..4, d \in {-1, 0}}
         \cup {(k * 10000000) \div 3 - d : k \in 1..108, d \in {0, 1}} :
     x >= 0 /\ x < Circle}

\* The placements of one body, lines 386-409 of calculateBirthChart.
PlacementCalc(longitude) ==
  /\ calc = NoCalc
  /\ calc' = [op |-> "placement", longitude |-> longitude,
              nakshatra |-> nakshatraOf(longitude), rashi |-> rashiOf(longitude)]
  /\ CalcUnchanged

\* The property of an object: its value, or undefined when the object has
\* none of the name.
Get(data, key) ==
  IF key \in DOMAIN data THEN [t |-> "value", v |-> data[key]] ELSE Undefined

\* prepareDataForGemini, the entry built for one body of chartData.nakshatras.
prepareDataForGemini(data) ==
  [name |-> Get(data, "name"), pada |-> Get(data, "pada")]

\* ${x} of a template literal.
Interpolated(x) == IF x.t = "undefined" THEN "undefined" ELSE x.v

\* createAnalysisPrompt, the line written for one body under NAKSHATRAS.
createAnalysisPrompt(planet, info) ==
  [planet |-> planet, name |-> Interpolated(info.name), pada |-> Interpolated(info.pada)]

\* One body of a chart on its way into the prompt: the engine's placement,
\* the entry prepared from it and the line written.
PromptCalc(planet, longitude) ==
  /\ calc = NoCalc
  /\ LET placement == nakshatraOf(longitude)
     IN calc' = [op |-> "prompt", planet |-> planet, longitude |-> longitude,
                 placement |-> placement,
                 line |-> createAnalysisPrompt(planet, prepareDataForGemini(placement))]
  /\ CalcUnchanged

\* The numbers of one chart, lines 360-380 of calculateBirthChart: the UTC
\* instant of the input, one body of the PRIMARY loop, the nodes, and the
\* ascendant on the path taken.
ChartCalc(date, time, timezone, name, elon, futureElon, path, g, lat, lng) ==
  /\ calc = NoCalc
  /\ LET utcDate == utcDateOf(date, time, timezone)
     IN calc' = [op |-> "chart", date |-> date, time |-> time, timezone |-> timezone,
                 utcDate |-> utcDate,
                 julianDay |-> dateTimeToJulianDay(date, time, timezone),
                 body |-> name, elon |-> elon,
                 futureElon |-> futureElon, path |-> path, sidereal |-> g,
                 lat |-> lat, lng |-> lng,
                 position |-> primaryPosition(name, elon, futureElon, utcDate),
                 nodes |-> calculateLunarNodes(utcDate),
                 ascendant |-> IF path = "PRIMARY"
                                 THEN ascendantPrimary(g, utcDate, lat, lng)
                                 ELSE ascendantFallback(utcDate, lat, lng)]
  /\ CalcUnchanged

NextCalc ==
  \/ (calc = NoCalc /\
        \E date \in CalcDateTexts, time \in CalcTimeTexts, timezone \in CalcZones,
           name \in {"Moon", "Mars"}, elon \in TropicalSamples,
           futureElon \in TropicalSamples, path \in {"PRIMARY", "FALLBACK"},
           lat \in {0, 30} :
           ChartCalc(date, time, timezone, name, elon, futureElon, path, 90000000, lat, 77))
  \/ (calc = NoCalc /\
        \E name \in SevenSet, elon \in TropicalSamples, futureElon \in TropicalSamples,
           date \in CalcDates : PrimaryCalc(name, elon, futureElon, date))
  \/ (calc = NoCalc /\
        \E name \in SevenSet, series \in SeriesSamples, date \in CalcDates :
           SecondaryCalc(name, series, date))
  \/ (calc = NoCalc /\ \E date \in CalcDates : LunarNodesCalc(date))
  \/ (calc = NoCalc /\
        \E g \in CalcSidereal, date \in CalcDates, lat \in CalcLats, lng \in CalcLngs :
           AscendantPrimaryCalc(g, date, lat, lng))
  \/ (calc = NoCalc /\
        \E date \in CalcDates, lat \in CalcLats, lng \in CalcLngs :
           AscendantFallbackCalc(date, lat, lng))
  \/ (calc = NoCalc /\ \E longitude \in LongitudeSamples : PlacementCalc(longitude))
  \/ (calc = NoCalc /\
        \E planet \in {"Moon", "Ketu"}, longitude \in {0, 13333332, 180000000, 359999999} :
           PromptCalc(planet, longitude))
  \/ Discard

SpecCalc == Init /\ [][NextCalc]_vars

InCircle(x) == x >= 0 /\ x < Circle

\* C9: under either strategy the longitude of each of the seven bodies, and
\* of both nodes, lies in [0, 360), for tropical longitudes in [0, 360) from
\* the library and birth years of four digits.
C9_LongitudesInCircle ==
  /\ calc.op \in {"primaryPosition", "secondaryPosition"} => InCircle(calc.out.longitude)
  /\ calc.op = "calculateLunarNodes" => InCircle(calc.out.rahu) /\ InCircle(calc.out.ketu)

\* C9 witness: in the year 100, where the ayanamsa is negative, the tropical
\* longitude just under 360 came out of the conversion wrapped to about 1.3.
C9_Witness ==
  /\ calc.op = "primaryPosition"
  /\ getFullYear(calc.date) = 100
  /\ calc.elon = 359999999
  /\ calc.out.longitude = 1299599

\* C10 as claimed: on either path the ascendant longitude lies in [0, 360),
\* its sign is floor(longitude / 30) within 0..11 and its degree is
\* longitude mod 30 within [0, 30).
C10_AscendantInCircle ==
  calc.op \in {"ascendantPrimary", "ascendantFallback"} =>
    /\ InCircle(calc.out.longitude)
    /\ calc.out.sign = calc.out.longitude \div SignWidth
    /\ calc.out.sign \in 0..11
    /\ calc.out.degree = calc.out.longitude % SignWidth
    /\ calc.out.degree >= 0 /\ calc.out.degree < SignWidth

\* The conversion every value of one chart should share: the tropical
\* longitude less the ayanamsa of the birth year, within [0, 360).
withAyanamsa(tropicalLongitude, ayanamsa) ==
  LET s0 == tropicalLongitude - ayanamsa
      s1 == IF s0 < 0 THEN s0 + Circle ELSE s0
  IN IF s1 >= Circle THEN s1 - Circle ELSE s1

\* The difference of two longitudes as the PRIMARY loop reduces it.
signedDifference(later, now) ==
  LET d0 == later - now
      d1 == IF d0 > 180000000 THEN d0 - Circle ELSE d0
  IN IF d1 < -180000000 THEN d1 + Circle ELSE d1

birthYear(date) == Element(split(date, "-"), 1).v

\* C12 as claimed: within one chart the body, its sample 24 hours later,
\* both nodes and the ascendant on either path are converted with one
\* ayanamsa, that of the calendar year of the input date.
C12_OneAyanamsa ==
  calc.op = "chart" =>
    LET a == ayanamsaOf(birthYear(calc.date))
        node == tropicalNodes(calc.utcDate)
        now == withAyanamsa(calc.elon, a)
        later == withAyanamsa(calc.futureElon, a)
    IN /\ calc.position.longitude = now
       /\ calc.body # "Moon" => calc.position.retrograde = (signedDifference(later, now) < 0)
       /\ calc.nodes.rahu = withAyanamsa(node.rahu, a)
       /\ calc.nodes.ketu = withAyanamsa(node.ketu, a)
       /\ calc.path = "PRIMARY" =>
            calc.ascendant.longitude =
              withAyanamsa(ascendantTropical(calc.sidereal, calc.lat, calc.lng), a)
       /\ calc.path = "FALLBACK" =>
            calc.ascendant.longitude =
              withAyanamsa(ascendantFallbackLongitude(calc.utcDate, calc.lat, calc.lng), a)

\* C13 as claimed: for a date and time of the calendar and any offset, the
\* Julian Day is that of the UTC instant, so julianDay and utcDate of
\* birthInfo denote one instant: Julian Day utcDate.day - 0.5 + utcDate.min /
\* 1440.
C13_JulianDayOfUtcInstant ==
  (calc.op = "chart" /\ CalendarInstant([date |-> Str(calc.date), time |-> Str(calc.time)]))
    => /\ calc.julianDay.valid
       /\ (calc.julianDay.day - calc.utcDate.day) * MinutesPerDay
             + (calc.julianDay.min - (calc.utcDate.min - 720)) = 0

\* -------------------------------------------------------------------------
\* The node and house calculators on rounded numbers (specification
\* SpecRound)
\* -------------------------------------------------------------------------
\* Values of meanNode % 360, spread over (-360, 360).
MeanNodeSamples == {rounded(37748741 * k - 754974000) : k \in 0..39}

\* The ayanamsa of the years 100, 1900, 1990, 2000, 2024 and 9999.
AyanamsaSamples == {fromMicro(ayanamsaOf(y)) : y \in {100, 1900, 1990, 2000, 2024, 9999}}

\* Ascendant longitudes spread over [0, 360).
AscendantSamples == {rounded(18874369 * k + 77) : k \in 0..39}

NodesRoundedCalc(meanNode, ayanamsa) ==
  /\ calc = NoCalc
  /\ calc' = [op |-> "lunarNodesRounded", meanNode |-> meanNode, ayanamsa |-> ayanamsa,
              out |-> lunarNodesRounded(meanNode, ayanamsa)]
  /\ CalcUnchanged

HousesRoundedCalc(ascendantLongitude) ==
  /\ calc = NoCalc
  /\ calc' = [op |-> "housesRounded", ascendantLongitude |-> ascendantLongitude,
              out |-> housesRounded(ascendantLongitude)]
  /\ CalcUnchanged

NextRound ==
  \/ (calc = NoCalc /\
        \E meanNode \in MeanNodeSamples, ayanamsa \in AyanamsaSamples :
           NodesRoundedCalc(meanNode, ayanamsa))
  \/ (calc = NoCalc /\
        \E ascendantLongitude \in AscendantSamples : HousesRoundedCalc(ascendantLongitude))
  \/ Discard

SpecRound == Init /\ [][NextRound]_vars

\* |a - b| mod 360, in units.
apart(a, b) == JsRem(Abs(a - b), Degrees(360))

\* C14 as claimed: the longitudes of Rahu and Ketu differ by exactly 180
\* degrees modulo 360.
C14_NodesExactlyOpposite ==
  calc.op = "lunarNodesRounded" => apart(calc.out.rahu, calc.out.ketu) = Degrees(180)

\* C14 amended: the longitudes of Rahu and Ketu differ by 180 degrees modulo
\* 360 up to rounding, within two units in the last place of a longitude
\* near 360.
C14_NodesOppositeWithinRounding ==
  calc.op = "lunarNodesRounded" =>
    Abs(apart(calc.out.rahu, calc.out.ketu) - Degrees(180)) <= 2 * ulp(Degrees(359))

\* C14 witness: nodes whose difference is off 180 degrees by rounding.
C14_Witness ==
  /\ calc.op = "lunarNodesRounded"
  /\ apart(calc.out.rahu, calc.out.ketu) # Degrees(180)
  /\ Abs(apart(calc.out.rahu, calc.out.ketu) - Degrees(180)) <= 2 * ulp(Degrees(359))

\* (b - a) mod 360, in units, for longitudes a and b of the circle.
ahead(a, b) == JsRem(b - a + Degrees(360), Degrees(360))

\* The distance on the circle between a cusp and the exact value of
\* (ascendant + 30 * i) mod 360, in units.
offCircle(cusp, exact) ==
  LET d == ahead(JsRem(exact, Degrees(360)), cusp)
  IN IF d > Degrees(180) THEN Degrees(360) - d ELSE d

\* The house after house i, house 1 after house 12.
nextHouse(i) == IF i = 12 THEN 1 ELSE i + 1

\* C15 as claimed: calculateHouses returns 12 entries in order with
\* house = i + 1, the cusp of house 1 is the ascendant longitude,
\* consecutive cusps (house 12 back to house 1 included) differ by exactly
\* 30 degrees modulo 360, and each sign is floor(cusp / 30) mod 12.
C15_CuspsExactlyThirtyApart ==
  calc.op = "housesRounded" =>
    LET h == calc.out
    IN /\ DOMAIN h = 1..12
       /\ h[1].cusp = calc.ascendantLongitude
       /\ \A i \in 1..12 :
            /\ h[i].house = i
            /\ h[i].cusp >= 0 /\ h[i].cusp < Degrees(360)
            /\ ahead(h[i].cusp, h[nextHouse(i)].cusp) = Degrees(30)
            /\ h[i].sign = JsRem(h[i].cusp \div Degrees(30), 12)

\* C15 amended: calculateHouses returns 12 entries in order with
\* house = i + 1, each cusp lies in [0, 360) within one unit in the last
\* place of (ascendant + 30 * i) mod 360, the cusp of house 1 is the
\* ascendant longitude itself, consecutive cusps (house 12 back to house 1
\* included) differ by 30 degrees modulo 360 within one unit in the last
\* place of a longitude near 360, and each sign is floor(cusp / 30) mod 12.
C15_CuspsThirtyApartWithinRounding ==
  calc.op = "housesRounded" =>
    LET h == calc.out
    IN /\ DOMAIN h = 1..12
       /\ h[1].cusp = calc.ascendantLongitude
       /\ \A i \in 1..12 :
            /\ h[i].house = i
            /\ h[i].cusp >= 0 /\ h[i].cusp < Degrees(360)
            /\ offCircle(h[i].cusp, calc.ascendantLongitude + Degrees(30 * (i - 1)))
                 <= ulp(Degrees(359))
            /\ Abs(ahead(h[i].cusp, h[nextHouse(i)].cusp) - Degrees(30))
                 <= ulp(Degrees(359))
            /\ h[i].sign = JsRem(h[i].cusp \div Degrees(30), 12)

\* C15 witness: twelve houses of which one cusp was wrapped back into the
\* circle and two consecutive cusps are off 30 degrees by rounding.
C15_Witness ==
  /\ calc.op = "housesRounded"
  /\ \E i \in 2..12 : calc.out[i].cusp < calc.out[i - 1].cusp
  /\ \E i \in 1..12 :
       ahead(calc.out[i].cusp, calc.out[nextHouse(i)].cusp) # Degrees(30)

\* -------------------------------------------------------------------------
\* Properties of the nakshatra and rashi placements (specification SpecCalc)
\* -------------------------------------------------------------------------
\* C16 as claimed: for every longitude in [0, 360) the nakshatra placement
\* has its index in 1..27 and its pada in 1..4.
C16_NakshatraAndPadaInRange ==
  (calc.op = "placement" /\ InCircle(calc.longitude)) =>
    /\ calc.nakshatra.nakshatra \in 1..27
    /\ calc.nakshatra.pada \in 1..4

\* C17: for every longitude in [0, 360) the rashi placement has
\* sign = floor(longitude / 30) + 1 in 1..12, degree = longitude mod 30 in
\* [0, 30), and signName the entry of the table of twelve names at that sign.
C17_RashiOfLongitude ==
  (calc.op = "placement" /\ InCircle(calc.longitude)) =>
    LET r == calc.rashi
    IN /\ r.sign \in 1..12
       /\ (r.sign - 1) * SignWidth <= calc.longitude
       /\ calc.longitude < r.sign * SignWidth
       /\ r.degree >= 0 /\ r.degree < SignWidth
       /\ calc.longitude = (r.sign - 1) * SignWidth + r.degree
       /\ r.signName = SignNames[r.sign]

\* C17 witness: a body in the last micro-degree of the circle is placed in
\* sign 12, Pisces, at the last micro-degree of the sign.
C17_Witness ==
  /\ calc.op = "placement"
  /\ calc.longitude = Circle - 1
  /\ calc.rashi = [sign |-> 12, degree |-> SignWidth - 1, signName |-> "Pisces"]

\* -------------------------------------------------------------------------
\* Properties of the retrograde flag (specification SpecCalc)
\* -------------------------------------------------------------------------
\* later - now for two longitudes of [0, 360), normalized into (-180, 180].
halfOpenDifference(later, now) ==
  LET d == later - now
  IN IF d > 180000000 THEN d - Circle
     ELSE IF d <= -180000000 THEN d + Circle
     ELSE d

\* C18 as claimed: under PRIMARY each of Mercury, Venus, Mars, Jupiter and
\* Saturn is flagged retrograde exactly when its sidereal longitude 24 hours
\* later minus its current one, normalized into (-180, 180], is negative;
\* Sun and Moon are never flagged retrograde under either strategy.
C18_RetrogradeByHalfOpenDifference ==
  /\ calc.op = "primaryPosition" =>
       LET later == tropicalToSidereal(calc.futureElon, AddMinutes(calc.date, 24 * 60))
       IN calc.out.retrograde
            = (/\ calc.body \notin {"Sun", "Moon"}
               /\ halfOpenDifference(later, calc.out.longitude) < 0)
  /\ (calc.op = "secondaryPosition" /\ calc.body \in {"Sun", "Moon"}) =>
       ~calc.out.retrograde

\* -------------------------------------------------------------------------
\* Properties of the nodes within a chart (specification SpecRepeat)
\* -------------------------------------------------------------------------
\* The request in progress is for the instant of the remembered one, and
\* both returned a chart.
SameInstant ==
  /\ served # None
  /\ served.outcome.kind = "chart"
  /\ served.input.date = birthData.date
  /\ served.input.time = birthData.time
  /\ served.input.timezone = birthData.timezone

\* C19: in every returned chart Rahu and Ketu are present with
\* retrograde = true, and two charts for the same instant carry the same
\* node longitudes, whichever strategy computed the seven bodies of each.
C19_NodesRetrogradeWhateverStrategy ==
  (pc = "done" /\ result.kind = "chart") =>
    LET p == result.chart.planetaryPositions
    IN /\ Nodes \subseteq DOMAIN p
       /\ \A n \in Nodes : p[n].retrograde = TRUE
       /\ SameInstant =>
            \A n \in Nodes :
               p[n].longitude = served.outcome.chart.planetaryPositions[n].longitude

\* C19 witness: a chart whose seven bodies came from SECONDARY carries the
\* node longitudes of an earlier chart for the same instant whose seven
\* bodies came from PRIMARY, both nodes retrograde.
C19_Witness ==
  /\ pc = "done"
  /\ result.kind = "chart"
  /\ SameInstant
  /\ served.outcome.chart.planetaryPositions["Sun"] = "PRIMARY"
  /\ result.chart.planetaryPositions["Sun"] = "SECONDARY"
  /\ \A n \in Nodes :
       /\ result.chart.planetaryPositions[n].retrograde
       /\ result.chart.planetaryPositions[n].longitude
            = served.outcome.chart.planetaryPositions[n].longitude
  /\ result.chart.planetaryPositions["Rahu"].longitude
       # result.chart.planetaryPositions["Ketu"].longitude

\* -------------------------------------------------------------------------
\* Properties of the order of the stages (specification Spec)
\* -------------------------------------------------------------------------
\* The place of a logged call in the sequence of stages.
stageOf(op) ==
  CASE op = "time" -> 1
    [] op \in {"Ecliptic", "EclipticFuture", "Secondary"} -> 2
    [] op = "Nodes" -> 3
    [] op \in {"SiderealTime", "AscendantFallback"} -> 4
    [] op = "Houses" -> 5
    [] op = "Nakshatras" -> 6
    [] op = "Rashis" -> 7
    [] op = "Assemble" -> 8

\* The calls whose success ends a stage.
Finishes(e) ==
  /\ e.ok
  /\ \/ e.op \in {"time", "Nodes", "AscendantFallback", "Houses", "Nakshatras", "Rashis"}
     \/ e.op = "SiderealTime"
     \/ e.op \in {"EclipticFuture", "Secondary"} /\ e.arg = Seven[7]

\* C20: within one request the stages run in the order time conversion,
\* seven bodies, nodes, ascendant, houses, nakshatras of all nine bodies,
\* rashis of all nine bodies, assembly; a stage starts only after the one
\* before it has finished, each of the single-step stages runs once, and
\* houses, nakshatras and rashis are computed from the final ascendant and
\* the final longitudes of the nine bodies.
C20_StagesInOrder ==
  /\ \A i, j \in 1..Len(log) : i < j => stageOf(log[i].op) <= stageOf(log[j].op)
  /\ \A i, j \in 1..Len(log) :
       (i < j /\ stageOf(log[i].op) = stageOf(log[j].op))
         => stageOf(log[i].op) \in {2, 4}
  /\ \A j \in 1..Len(log) :
       stageOf(log[j].op) > 1
         => \E i \in 1..(j - 1) :
              \/ stageOf(log[i].op) = stageOf(log[j].op)
              \/ stageOf(log[i].op) = stageOf(log[j].op) - 1 /\ Finishes(log[i])
  /\ houses # <<>> => houses = calculateHouses(ascendant.value.longitude)
  /\ nakshatras # EmptyMap
       => /\ DOMAIN nakshatras = Nine
          /\ \A b \in Nine : nakshatras[b] = [of |-> "nakshatra", from |-> planets[b]]
  /\ rashis # EmptyMap
       => /\ DOMAIN rashis = Nine
          /\ \A b \in Nine : rashis[b] = [of |-> "rashi", from |-> planets[b]]
  /\ ChartReturned
       => /\ [i \in 1..8 |-> \E k \in 1..Len(log) : stageOf(log[k].op) = i]
               = [i \in 1..8 |-> TRUE]
          /\ result.chart.planetaryPositions = planets
          /\ result.chart.houses = houses
          /\ result.chart.nakshatras = nakshatras
          /\ result.chart.rashis = rashis

\* C20 witness: a chart was returned after all eight stages, the seven
\* bodies by the SECONDARY fallback and the ascendant by its fallback.
C20_Witness ==
  /\ ChartReturned
  /\ log[1].op = "time"
  /\ log[Len(log)] = Ev("Assemble", "", TRUE)
  /\ \E k \in 1..Len(log) : log[k] = Ev("Secondary", Seven[7], TRUE)
  /\ \E k \in 1..Len(log) : log[k] = Ev("AscendantFallback", "", TRUE)
  /\ DOMAIN nakshatras = Nine
  /\ DOMAIN rashis = Nine

\* -------------------------------------------------------------------------
\* Properties of failure handling (specification Spec)
\* -------------------------------------------------------------------------
\* The calls no catch block recovers from, and the stage each belongs to.
UnrecoveredOps ==
  {"Secondary", "Nodes", "AscendantFallback", "Houses", "Nakshatras", "Rashis"}

stageRaising(op) ==
  CASE op = "Secondary" -> "positions"
    [] op = "Nodes" -> "nodes"
    [] op = "AscendantFallback" -> "ascendantFallback"
    [] op = "Houses" -> "houses"
    [] op = "Nakshatras" -> "nakshatras"
    [] op = "Rashis" -> "rashis"

\* C21: a failed call is followed by further work only when it is a PRIMARY
\* position call or the PRIMARY ascendant call; a failure of SECONDARY, of
\* the node calculator, of the ascendant fallback, of houses or of a mapping
\* is the last call of its request, which ends with one error for that
\* failure and no chart.
C21_OnlyPrimaryFailuresRecovered ==
  /\ \A i \in 1..Len(log) :
       (~log[i].ok /\ i < Len(log)) => log[i].op \in PrimaryOps
  /\ \A i \in 1..Len(log) :
       (~log[i].ok /\ log[i].op \in UnrecoveredOps)
         => /\ i = Len(log)
            /\ pc = "done"
            /\ result.kind = "error"
            /\ raised.kind = "failure"
            /\ raised.stage = stageRaising(log[i].op)
  /\ ChartReturned => \A i \in 1..Len(log) : ~log[i].ok => log[i].op \in PrimaryOps

\* C21 witness: a request recovered from a failed PRIMARY position call and
\* from a failed PRIMARY ascendant call, and then ended with an error when
\* the rashi mapping failed.
C21_Witness ==
  /\ pc = "done"
  /\ result.kind = "error"
  /\ LogHas(PositionOps, FALSE)
  /\ LogHas({"SiderealTime"}, FALSE)
  /\ LogHas({"AscendantFallback"}, TRUE)
  /\ log[Len(log)] = Ev("Rashis", "", FALSE)
  /\ raised.stage = "rashis"

\* -------------------------------------------------------------------------
\* Properties of the equatorial prime-meridian input (specification Spec)
\* -------------------------------------------------------------------------
\* The request in progress is for lat = 0, lng = 0 at a date and a time in
\* the format of validation that name a day of the calendar and a time of
\* the clock.
ZeroCoordinates ==
  /\ birthData # None
  /\ IsStr(birthData.date) /\ IsStr(birthData.time)
  /\ dateRegex(birthData.date) /\ timeRegex(birthData.time)
  /\ CalendarInstant(birthData)
  /\ birthData.lat = Num(0)
  /\ birthData.lng = Num(0)

\* C22: the input lat = 0, lng = 0 with a well-formed date and time is
\* accepted by validateBirthData, the Observer is built for it, and the
\* ascendant calculation does not raise for it on either path: the try
\* block is not left because of the input, the catch block finds a valid
\* date, and either path answers a longitude; the only failure the stage
\* can end with is one raised independently of the input.
C22_ZeroCoordinatesAccepted ==
  ZeroCoordinates =>
    /\ result.kind # "rejected"
    /\ pc # "idle"
    /\ raised # None => raised.stage \notin {"observer", "time"}
    /\ pc = "ascendant"
         => /\ ObserverAccepts(birthData.lat, birthData.lng)
            /\ instant.utcDate.valid
    /\ (raised # None /\ raised.stage = "ascendantFallback")
         => raised.message \in FaultMessages
    /\ ascendant # None
         => /\ ascendant.value.longitude \in Int
            /\ ascendant.value.sign = ascendant.value.longitude \div SignWidth

\* C22 witness: a chart was returned for lat = 0, lng = 0 with the
\* ascendant of the catch block.
C22_Witness ==
  /\ ChartReturned
  /\ ZeroCoordinates
  /\ ascendant.by = "FALLBACK"
  /\ result.chart.ascendant.longitude
       = ascendantFallbackLongitude(instant.utcDate, 0, 0)

\* -------------------------------------------------------------------------
\* Properties of the nakshatra name (specification SpecCalc)
\* -------------------------------------------------------------------------
\* C23 as claimed: for every longitude in [0, 360) the nakshatra name of the
\* placement is the entry of the table of 27 names at the placement's own
\* index, never 'Unknown'.
C23_NameOfOwnIndex ==
  (calc.op = "placement" /\ InCircle(calc.longitude)) =>
    /\ calc.nakshatra.nakshatra \in 1..Len(NakshatraNames)
    /\ calc.nakshatra.nakshatraName = NakshatraNames[calc.nakshatra.nakshatra]
    /\ calc.nakshatra.nakshatraName # "Unknown"

\* -------------------------------------------------------------------------
\* Properties of the one-shot fallback (specification Spec)
\* -------------------------------------------------------------------------
\* The places of the log where SECONDARY computed body b.
SecondaryRuns(b) == {i \in 1..Len(log) : log[i].op = "Secondary" /\ log[i].arg = b}

\* C24: within one request, after a failed PRIMARY position call no PRIMARY
\* position call follows; SECONDARY runs only after such a failure, in the
\* order of the seven bodies and at most once for each; a failing SECONDARY
\* computation is the last call of the request; and once the block is over
\* without a failure it has run exactly once for each of the seven bodies.
C24_OneShotFallback ==
  /\ \A i, j \in 1..Len(log) :
       (i < j /\ log[i].op \in PositionOps /\ ~log[i].ok) => log[j].op \notin PositionOps
  /\ \A j \in 1..Len(log) :
       log[j].op = "Secondary"
         => \E i \in 1..(j - 1) : log[i].op \in PositionOps /\ ~log[i].ok
  /\ \A b \in SevenSet : Cardinality(SecondaryRuns(b)) <= 1
  /\ \A i \in 1..Len(log) :
       (log[i].op = "Secondary" /\ ~log[i].ok) => (i = Len(log) /\ pc = "done")
  /\ (LogHas(PositionOps, FALSE) /\ pc # "secondary" /\ ~LogHas({"Secondary"}, FALSE))
       => \E first \in 1..Len(log) :
            \A k \in 1..7 : log[first + k - 1] = Ev("Secondary", Seven[k], TRUE)

\* C24 witness: a chart was returned after PRIMARY had computed three
\* bodies and failed on the fourth; SECONDARY then ran once for each of the
\* seven.
C24_Witness ==
  /\ ChartReturned
  /\ log[8] = Ev("Ecliptic", Seven[4], FALSE)
  /\ \A k \in 1..7 : log[8 + k] = Ev("Secondary", Seven[k], TRUE)
  /\ \A b \in SevenSet : Cardinality(SecondaryRuns(b)) = 1

\* -------------------------------------------------------------------------
\* Properties of the mean node (specification SpecCalc)
\* -------------------------------------------------------------------------
\* 125.0445479 - 1934.1362891 * (year - 2000) - 0.0020756 * dayOfYear,
\* reduced into [0, 360), in micro-degrees.
nodePerYear(year, doy) ==
  LET r == JsRemWide(-(year - 2000), 1934136289, 125044548 - 2076 * doy, Circle)
  IN IF r < 0 THEN r + Circle ELSE r

\* C25 as claimed: the tropical mean node behind Rahu is 125.0445479
\* - 1934.1362891 * (year - 2000) - 0.0020756 * dayOfYear reduced into
\* [0, 360), Ketu is that value plus 180 modulo 360, and each is converted
\* to sidereal on its own.
C25_NodeMovesPerYear ==
  calc.op = "calculateLunarNodes" =>
    LET year == getFullYear(calc.date)
        rahu == nodePerYear(year, dayOfYear(calc.date, year))
        ketu == (rahu + 180000000) % Circle
    IN /\ calc.out.rahu = tropicalToSidereal(rahu, calc.date)
       /\ calc.out.ketu = tropicalToSidereal(ketu, calc.date)

\* -------------------------------------------------------------------------
\* Properties of the house signs within a chart (specification Spec)
\* -------------------------------------------------------------------------
\* C26 as claimed: in every returned chart the sign of house 1 is the sign
\* of the ascendant, and the signs of the 12 houses are distinct and cover
\* 0..11 in cyclic order from the sign of the ascendant, on either
\* ascendant path.
C26_HouseSignsFollowAscendant ==
  ChartReturned =>
    LET c == result.chart
    IN /\ c.houses[1].sign = c.ascendant.sign
       /\ \A i \in 1..12 : c.houses[i].sign = (c.ascendant.sign + i - 1) % 12
       /\ {c.houses[i].sign : i \in 1..12} = 0..11

\* -------------------------------------------------------------------------
\* Properties of the analysis prompt (specification SpecCalc)
\* -------------------------------------------------------------------------
\* C27 as claimed: the nakshatra name written into the analysis prompt for
\* a body is the name the engine computed for it, never an undefined or
\* missing value.
C27_PromptCarriesNakshatraName ==
  calc.op = "prompt" =>
    /\ calc.line.name = calc.placement.nakshatraName
    /\ calc.line.name # "undefined"
    /\ calc.line.pada = calc.placement.pada

\* -------------------------------------------------------------------------
\* The birth chart form (BirthChartForm.jsx; specification SpecForm)
\* -------------------------------------------------------------------------
\* Submissions one run of the form makes.
MaxSubmits == 3

\* What the form leaves alone: the engine and the geocoding module.
FormUnchanged ==
  UNCHANGED <<maps, served, pc, requests, birthData, instant, idx, planets, ascendant,
              houses, nakshatras, rashis, log, raised, result, calc>>

\* formatDateTimeFromForm, lines 29-40: the date texts the handler can build
\* from the fields, one in the format of validation and one of a year of five
\* digits, which only the max of the input (line 357) stands against.
D_wide == <<"2", "0", "2", "4", "5", "-", "0", "1", "-", "0", "5">>

FormDates == {D_2000, D_wide}

\* What a geocoder may answer, and its failure.
GeocodeFailed == [kind |-> "failed"]

GeocodeAnswers ==
  {[kind |-> "coordinates", lat |-> lat, lng |-> Num(0)] : lat \in {Num(30), NaN}}

Message(text) == [kind |-> "message", text |-> text]

\* catch and finally of handleSubmit, lines 267-272.
SubmitFails(f, text) ==
  [f EXCEPT !.error = Message(text), !.loading = FALSE, !.step = "idle",
            !.outcome = [of |-> f.submitted, ok |-> FALSE]]

\* handleSubmit, lines 244-263 and 270-272: from the coordinates to the end.
\* by names the geocoder that answered; computes tells whether
\* calculateBirthChart returns or throws.
Located(f, by, answer, computes) ==
  LET g == [f EXCEPT !.coordinates = answer]
      data == [date |-> Str(f.date), time |-> Str(T_noon), lat |-> answer.lat,
               lng |-> answer.lng, timezone |-> 0]
      v == validateBirthData(data)
      located == f.calls \o <<by \o " returned", "validate">>
      calculating == located \o <<"validate returned", "calculate">>
  IN IF v.kind = "throw"
       THEN SubmitFails([g EXCEPT !.calls = Append(located, "validate threw")],
                        v.message)
     ELSE IF ~computes
       THEN SubmitFails([g EXCEPT !.calls = Append(calculating, "calculate threw")],
                        Wrapped(MsgPositions))
     ELSE [g EXCEPT !.calls = Append(calculating, "calculate returned"),
                    !.chartData = [kind |-> "chart", of |-> f.submitted],
                    !.loading = FALSE, !.step = "idle",
                    !.outcome = [of |-> f.submitted, ok |-> TRUE]]

\* A handler that leaves the chart of the submission before in place.
SubmitForm_keepsChart(filled, date) ==
  /\ ~form.loading
  /\ form.step = "idle"
  /\ form.submitted < MaxSubmits
  /\ LET f == [form EXCEPT !.loading = TRUE, !.error = None,
                           !.submitted = form.submitted + 1, !.calls = <<>>,
                           !.date = date]
     IN form' = IF ~filled
                  THEN SubmitFails(f, "Please fill in all required fields")
                  ELSE [f EXCEPT !.calls = <<"google">>, !.step = "google"]
  /\ FormUnchanged

\* handleSubmit, lines 210-233, up to the call of geocodeLocation.  The
\* submit button is disabled while loading (line 391).
SubmitForm(filled, date) ==
  /\ ~form.loading
  /\ form.step = "idle"
  /\ form.submitted < MaxSubmits
  /\ LET f == [form EXCEPT !.loading = TRUE, !.error = None, !.chartData = None,
                           !.submitted = form.submitted + 1, !.calls = <<>>,
                           !.date = date]
     IN form' = IF ~filled
                  THEN SubmitFails(f, "Please fill in all required fields")
                  ELSE [f EXCEPT !.calls = <<"google">>, !.step = "google"]
  /\ FormUnchanged

\* handleSubmit, lines 231-242: geocodeLocation settles.
GoogleAnswers(answer, computes) ==
  /\ form.step = "google"
  /\ form' = IF answer = GeocodeFailed
               THEN [form EXCEPT !.calls = form.calls \o <<"google threw", "osm">>,
                                 !.step = "osm"]
               ELSE Located(form, "google", answer, computes)
  /\ FormUnchanged

\* handleSubmit, lines 236-241: geocodeLocationFallback settles.
OsmAnswers(answer, computes) ==
  /\ form.step = "osm"
  /\ form' = IF answer = GeocodeFailed
               THEN SubmitFails([form EXCEPT !.calls = Append(form.calls, "osm threw")],
                                "Location not found")
               ELSE Located(form, "osm", answer, computes)
  /\ FormUnchanged

\* handleChange and the effect of lines 45-49: an edit clears the error.
EditForm ==
  /\ form.error # None
  /\ form' = [form EXCEPT !.error = None]
  /\ FormUnchanged

\* The chart panel is rendered (line 397).
PanelShown == form.chartData # None /\ form.coordinates # None

\* handleAnalyzeChart, lines 56-76, up to the await.  The button is in the
\* chart panel and is disabled while isAnalyzing (line 419).
AnalyzeClick ==
  /\ PanelShown
  /\ ~form.isAnalyzing
  /\ form' = IF form.chartData = None \/ form.coordinates = None
               THEN [form EXCEPT !.analysisError =
                                    Message("Please generate a birth chart first")]
               ELSE [form EXCEPT !.isAnalyzing = TRUE, !.analysisError = None,
                                 !.aiAnalysis = None,
                                 !.pending = form.pending \cup {form.chartData}]
  /\ FormUnchanged

\* handleAnalyzeChart, lines 76-82: analyzeBirthChart settles for the chart
\* it was called with.
AnalysisAnswers(chart, ok) ==
  /\ chart \in form.pending
  /\ form' = [form EXCEPT
                !.pending = form.pending \ {chart},
                !.aiAnalysis = IF ok THEN [kind |-> "analysis", of |-> chart.of]
                               ELSE form.aiAnalysis,
                !.analysisError = IF ok THEN form.analysisError
                                  ELSE Message("Failed to analyze birth chart"),
                !.isAnalyzing = FALSE]
  /\ FormUnchanged

NextForm ==
  \/ \E filled \in BOOLEAN, date \in FormDates : SubmitForm(filled, date)
  \/ \E answer \in GeocodeAnswers \cup {GeocodeFailed}, computes \in BOOLEAN :
        GoogleAnswers(answer, computes)
  \/ \E answer \in GeocodeAnswers \cup {GeocodeFailed}, computes \in BOOLEAN :
        OsmAnswers(answer, computes)
  \/ EditForm
  \/ AnalyzeClick
  \/ \E chart \in form.pending, ok \in BOOLEAN : AnalysisAnswers(chart, ok)

SpecForm == Init /\ [][NextForm]_vars

\* The position of an event in the trace of the running submission, 0 when
\* it has not happened.
At(event) ==
  IF \E i \in 1..Len(form.calls) : form.calls[i] = event
    THEN CHOOSE i \in 1..Len(form.calls) : form.calls[i] = event
    ELSE 0

\* Google is asked first, OpenStreetMap only once Google has failed, and
\* calculateBirthChart only once a geocoder has answered and validateBirthData
\* has returned.
CallsInOrder ==
  /\ form.calls # <<>> => form.calls[1] = "google"
  /\ At("osm") # 0 => form.calls[At("osm") - 1] = "google threw"
  /\ At("calculate") # 0 =>
       /\ form.calls[At("calculate") - 1] = "validate returned"
       /\ At("google returned") # 0 \/ At("osm returned") # 0
       /\ form.coordinates \in GeocodeAnswers

\* A step in which a submission ends.
SubmissionEnds == form'.outcome # form.outcome

\* C28: in handleSubmit, calculateBirthChart is invoked only after geocoding
\* (Google first, the OpenStreetMap fallback only if Google failed) has
\* produced coordinates and validateBirthData has returned true; and when a
\* submission ends, loading is false and either chartData is the newly
\* computed chart, or chartData is null and an error message is set.
C28_SubmitInOrderAndEndsClean ==
  /\ []CallsInOrder
  /\ [][SubmissionEnds =>
          /\ form'.loading = FALSE
          /\ \/ /\ form'.chartData = [kind |-> "chart", of |-> form'.submitted]
                /\ At("calculate")' # 0
             \/ /\ form'.chartData = None
                /\ form'.error # None]_vars

\* A second submission that Google failed and OpenStreetMap answered has
\* ended with its chart.
C28_Witness ==
  /\ form.submitted = 2
  /\ form.outcome = [of |-> 2, ok |-> TRUE]
  /\ form.calls = <<"google", "google threw", "osm", "osm returned", "validate",
                    "validate returned", "calculate", "calculate returned">>
  /\ form.chartData = [kind |-> "chart", of |-> 2]
  /\ ~form.loading

\* The analysis block of the chart panel is rendered (lines 397 and 432).
AnalysisShown == PanelShown /\ form.aiAnalysis # None

\* C29: over any sequence of chart submissions, analysis requests and analysis
\* responses, an analysis is displayed only together with the chart it was
\* generated from, never next to a later chart.
C29_AnalysisOfShownChart ==
  AnalysisShown => form.aiAnalysis.of = form.chartData.of

\* -------------------------------------------------------------------------
\* The geocoding module (geocoding.js; specification SpecMaps)
\* -------------------------------------------------------------------------
\* geocoder is the number of Geocoder objects made so far, the last of which
\* the module holds (0 is null); loaders counts the evaluations of new Loader
\* and loads the calls of loader.load().  at is where each caller stands and
\* via the function it called.

\* What the geocoding module leaves alone: the engine and the form.
MapsUnchanged ==
  UNCHANGED <<form, served, pc, requests, birthData, instant, idx, planets, ascendant,
              houses, nakshatras, rashis, log, raised, result, calc>>

\* initializeGoogleMaps, lines 12-24, up to the await of loader.load().
Initialize(m, c) ==
  IF m.isLoaded /\ m.geocoder # 0
    THEN [m EXCEPT !.at[c] = "ready"]
    ELSE [m EXCEPT !.loaders = m.loaders + 1, !.loads = m.loads + 1,
                   !.at[c] = "loading"]

\* A caller calls initializeGoogleMaps.
CallInitialize(c) ==
  /\ maps.at[c] = "idle"
  /\ LET m == Initialize(maps, c)
     IN maps' = [m EXCEPT !.at[c] = IF @ = "ready" THEN "done" ELSE @]
  /\ MapsUnchanged

\* A caller calls geocodeLocation, lines 39-44: it initializes only when the
\* module holds no geocoder.
CallGeocode(c) ==
  /\ maps.at[c] = "idle"
  /\ LET m == IF maps.geocoder = 0 THEN Initialize(maps, c)
              ELSE [maps EXCEPT !.at[c] = "ready"]
     IN maps' = [m EXCEPT !.at[c] = IF @ = "ready" THEN "geocoding" ELSE @,
                          !.via[c] = "geocodeLocation"]
  /\ MapsUnchanged

\* loader.load() settles for one caller, lines 24-31.
LoadSettles(c, ok) ==
  /\ maps.at[c] = "loading"
  /\ maps' = IF ok
               THEN [maps EXCEPT !.geocoder = maps.geocoder + 1, !.isLoaded = TRUE,
                                 !.at[c] = IF maps.via[c] = "geocodeLocation"
                                             THEN "geocoding" ELSE "done"]
               ELSE [maps EXCEPT !.at[c] = "failed"]
  /\ MapsUnchanged

\* geocoder.geocode answers, lines 57-75.
GeocodeSettles(c, ok) ==
  /\ maps.at[c] = "geocoding"
  /\ maps' = [maps EXCEPT !.at[c] = IF ok THEN "done" ELSE "failed"]
  /\ MapsUnchanged

NextMaps ==
  \/ \E c \in Callers : CallInitialize(c)
  \/ \E c \in Callers : CallGeocode(c)
  \/ \E c \in Callers, ok \in BOOLEAN : LoadSettles(c, ok)
  \/ \E c \in Callers, ok \in BOOLEAN : GeocodeSettles(c, ok)

SpecMaps == Init /\ [][NextMaps]_vars

\* C30: over any interleaving of concurrent initializeGoogleMaps and
\* geocodeLocation calls, the Google Maps loader is created and loaded at most
\* once, and in every reachable state isLoaded = true implies that the shared
\* geocoder is set.
C30_LoaderOnceAndGeocoderSet ==
  /\ maps.loaders <= 1
  /\ maps.loads <= 1
  /\ maps.isLoaded => maps.geocoder # 0

====
